---- MODULE Spec2Model ----
(***************************************************************************)
(* Model of terraform-provider-adgroups: the LDAP client wrapper           *)
(* (internal/client), the provider Configure, and the group and            *)
(* group-membership resource handlers, run against a model of the          *)
(* directory server the client talks to.                                   *)
(*                                                                         *)
(* Text.  A Go string is a sequence of atoms.  In a DN, an identifier or a *)
(* number every atom is one character ("C", "=", "|", "7").  In a message  *)
(* every atom is one word or one punctuation mark of the message, in the   *)
(* letter case the Go source (or the server) writes it in.  Concatenation  *)
(* is \o; the substring, split, fold and escape functions of package       *)
(* strings work on the atoms.                                              *)
(***************************************************************************)
EXTENDS Integers, Sequences, FiniteSets, TLC

VARIABLES
    flavour,    \* which directory server answers: "ad" or "openldap"
    conn,       \* Client.conn: "nil", "open", "closed" (Close was called), "dropped" (session lost)
    provider,   \* "unconfigured", "configured" (client handed out), "failed"
    dir,        \* the directory: a set of entries, at most one per DN (DNs match case-insensitively)
    tfGroup,    \* tracked state of the one group resource instance
    tfMember,   \* tracked state of the one group-membership resource instance
    resp,       \* what the last operation did: its inputs, requests, replies and diagnostics
    inflight,   \* the requests sent on the session and not yet answered, each with its owner
    pc          \* where each concurrently running handler is: idle, or waiting for a reply

vars == <<flavour, conn, provider, dir, tfGroup, tfMember, resp, inflight, pc>>

-----------------------------------------------------------------------------
(* Bounds *)

\* longest import identifier enumerated for ImportState
MaxIdLen == 4

\* longest group DN and member DN enumerated for the identifier Create stores
MaxDnLen == 2

\* longest common name enumerated for the escape functions and the accessors
MaxCnLen == 3

-----------------------------------------------------------------------------
(* package strings / strconv / fmt *)

\* the letters that occur in the model's DNs, with their lower-case forms
ToLower(c) ==
    CASE c = "C" -> "c"
      [] c = "N" -> "n"
      [] c = "D" -> "d"
      [] c = "O" -> "o"
      [] c = "U" -> "u"
      [] c = "G" -> "g"
      [] OTHER -> c

\* unicode.SimpleFold restricted to the model's letters: both directions
Fold(s) == [i \in 1..Len(s) |-> ToLower(s[i])]

\* strings.EqualFold(a, b)
EqualFold(a, b) == Fold(a) = Fold(b)

\* a == b on strings
EqualExact(a, b) == a = b

HasPrefixAt(s, p, i) ==
    /\ i + Len(p) - 1 <= Len(s)
    /\ \A k \in 1..Len(p) : s[i + k - 1] = p[k]

\* strings.Contains(s, substr): case-sensitive substring test
Contains(s, p) == \E i \in 1..(Len(s) + 1) : HasPrefixAt(s, p, i)

\* strings.Split(s, sep) for a one-character separator: the pieces between
\* the separators, Count(sep)+1 of them
RECURSIVE SplitFrom(_, _, _, _)
SplitFrom(s, sep, i, cur) ==
    IF i > Len(s) THEN <<cur>>
    ELSE IF s[i] = sep THEN <<cur>> \o SplitFrom(s, sep, i + 1, <<>>)
    ELSE SplitFrom(s, sep, i + 1, Append(cur, s[i]))

\* strings.SplitN(s, sep, 2): split at the first separator only
SplitFirst(s, sep) ==
    IF \E i \in 1..Len(s) : s[i] = sep
    THEN LET i == CHOOSE j \in 1..Len(s) : s[j] = sep /\ \A k \in 1..(j - 1) : s[k] # sep
         IN  <<SubSeq(s, 1, i - 1), SubSeq(s, i + 1, Len(s))>>
    ELSE <<s>>

Split(s, sep) == SplitFrom(s, sep, 1, <<>>)

Digit(d) == CASE d = 0 -> "0" [] d = 1 -> "1" [] d = 2 -> "2" [] d = 3 -> "3" [] d = 4 -> "4"
              [] d = 5 -> "5" [] d = 6 -> "6" [] d = 7 -> "7" [] d = 8 -> "8" [] d = 9 -> "9"

DigitVal(c) == CASE c = "0" -> 0 [] c = "1" -> 1 [] c = "2" -> 2 [] c = "3" -> 3 [] c = "4" -> 4
                 [] c = "5" -> 5 [] c = "6" -> 6 [] c = "7" -> 7 [] c = "8" -> 8 [] c = "9" -> 9
                 [] OTHER -> -1

\* the decimal digits of n <= 0, most significant first (the negative range
\* holds every 32-bit magnitude)
RECURSIVE NegDigits(_)
NegDigits(n) ==
    IF n > -10 THEN <<Digit(-n)>>
    ELSE LET q == (n + 9) \div 10
             r == q * 10 - n
         IN  NegDigits(q) \o <<Digit(r)>>

\* a formatter that loses the sign
FormatIntNoSign(n) == IF n < 0 THEN NegDigits(n) ELSE NegDigits(-n)

\* fmt.Sprintf("%d", n)
FormatInt(n) == IF n < 0 THEN <<"-">> \o NegDigits(n) ELSE NegDigits(-n)

\* strconv.ParseInt(s, 10, 64): [ok, v]; an optional sign, then one or more digits
RECURSIVE ParseNeg(_, _, _)
ParseNeg(s, i, acc) ==
    IF i > Len(s) THEN acc ELSE ParseNeg(s, i + 1, acc * 10 - DigitVal(s[i]))

ParseInt(s) ==
    LET neg    == Len(s) > 0 /\ s[1] = "-"
        signed == Len(s) > 0 /\ s[1] \in {"-", "+"}
        body   == IF signed THEN SubSeq(s, 2, Len(s)) ELSE s
    IN  IF Len(body) = 0 \/ \E i \in 1..Len(body) : DigitVal(body[i]) < 0
        THEN [ok |-> FALSE, v |-> 0]
        ELSE [ok |-> TRUE, v |-> IF neg THEN ParseNeg(body, 1, 0) ELSE -ParseNeg(body, 1, 0)]

\* an EscapeDN that also puts a backslash before a space
EscapeDNCharSpace(c) ==
    CASE c = "\\" -> <<"\\", "\\">>
      [] c = ","  -> <<"\\", ",">>
      [] c = "+"  -> <<"\\", "+">>
      [] c = "\"" -> <<"\\", "\"">>
      [] c = "<"  -> <<"\\", "<">>
      [] c = ">"  -> <<"\\", ">">>
      [] c = ";"  -> <<"\\", ";">>
      [] c = "="  -> <<"\\", "=">>
      [] c = " "  -> <<"\\", " ">>
      [] c = "\n" -> <<"\\", "0", "A">>
      [] c = "\r" -> <<"\\", "0", "D">>
      [] c = "NUL" -> <<"\\", "0", "0">>
      [] OTHER -> <<c>>

\* client.EscapeDN: strings.NewReplacer over single characters
EscapeDNChar(c) ==
    CASE c = "\\" -> <<"\\", "\\">>
      [] c = ","  -> <<"\\", ",">>
      [] c = "+"  -> <<"\\", "+">>
      [] c = "\"" -> <<"\\", "\"">>
      [] c = "<"  -> <<"\\", "<">>
      [] c = ">"  -> <<"\\", ">">>
      [] c = ";"  -> <<"\\", ";">>
      [] c = "="  -> <<"\\", "=">>
      [] c = "\n" -> <<"\\", "0", "A">>
      [] c = "\r" -> <<"\\", "0", "D">>
      [] c = "NUL" -> <<"\\", "0", "0">>
      [] OTHER -> <<c>>

RECURSIVE EscapeDN(_)
EscapeDN(value) ==
    IF value = <<>> THEN <<>> ELSE EscapeDNChar(Head(value)) \o EscapeDN(Tail(value))

\* an EscapeFilter that leaves the asterisk alone
EscapeFilterCharNoStar(c) ==
    CASE c = "\\" -> <<"\\", "5", "c">>
      [] c = "("  -> <<"\\", "2", "8">>
      [] c = ")"  -> <<"\\", "2", "9">>
      [] c = "NUL" -> <<"\\", "0", "0">>
      [] OTHER -> <<c>>

\* client.EscapeFilter: strings.NewReplacer over single characters
EscapeFilterChar(c) ==
    CASE c = "\\" -> <<"\\", "5", "c">>
      [] c = "*"  -> <<"\\", "2", "a">>
      [] c = "("  -> <<"\\", "2", "8">>
      [] c = ")"  -> <<"\\", "2", "9">>
      [] c = "NUL" -> <<"\\", "0", "0">>
      [] OTHER -> <<c>>

RECURSIVE EscapeFilter(_)
EscapeFilter(value) ==
    IF value = <<>> THEN <<>> ELSE EscapeFilterChar(Head(value)) \o EscapeFilter(Tail(value))

-----------------------------------------------------------------------------
(* How go-ldap and the server read the strings the client builds: search  *)
(* filters (RFC 4515) and distinguished names (RFC 4514)                  *)

\* the value of a hexadecimal digit, -1 for any other character
HexVal(c) ==
    CASE c = "0" -> 0 [] c = "1" -> 1 [] c = "2" -> 2 [] c = "3" -> 3 [] c = "4" -> 4
      [] c = "5" -> 5 [] c = "6" -> 6 [] c = "7" -> 7 [] c = "8" -> 8 [] c = "9" -> 9
      [] c \in {"a", "A"} -> 10 [] c \in {"b", "B"} -> 11 [] c \in {"c", "C"} -> 12
      [] c \in {"d", "D"} -> 13 [] c \in {"e", "E"} -> 14 [] c \in {"f", "F"} -> 15
      [] OTHER -> -1

\* the character with byte value n; "?" stands for every byte the model has
\* no character for
ByteChar(n) ==
    CASE n = 0 -> "NUL" [] n = 10 -> "\n" [] n = 13 -> "\r" [] n = 32 -> " " [] n = 34 -> "\""
      [] n = 35 -> "#" [] n = 40 -> "(" [] n = 41 -> ")" [] n = 42 -> "*" [] n = 43 -> "+"
      [] n = 44 -> "," [] n = 50 -> "2" [] n = 59 -> ";" [] n = 60 -> "<" [] n = 61 -> "="
      [] n = 62 -> ">" [] n = 92 -> "\\" [] n = 97 -> "a" [] OTHER -> "?"

\* a decoded character put in front of the decoded rest r = [ok, v]
Cons(c, r) == [ok |-> r.ok, v |-> <<c>> \o r.v]

\* the assertion value of a filter item: every backslash must be followed by
\* two hexadecimal digits and stands for that byte
RECURSIVE DecodeFilterValue(_)
DecodeFilterValue(raw) ==
    IF raw = <<>> THEN [ok |-> TRUE, v |-> <<>>]
    ELSE IF Head(raw) # "\\" THEN Cons(Head(raw), DecodeFilterValue(Tail(raw)))
    ELSE IF Len(raw) < 3 \/ HexVal(raw[2]) < 0 \/ HexVal(raw[3]) < 0 THEN [ok |-> FALSE, v |-> <<>>]
    ELSE Cons(ByteChar(16 * HexVal(raw[2]) + HexVal(raw[3])),
              DecodeFilterValue(SubSeq(raw, 4, Len(raw))))

\* the position of the first c in s at or after i, Len(s) + 1 if there is none
ScanTo(s, i, c) ==
    IF \E j \in i..Len(s) : s[j] = c
    THEN CHOOSE j \in i..Len(s) : s[j] = c /\ \A k \in i..(j - 1) : s[k] # c
    ELSE Len(s) + 1

\* the filter item "attr=raw": a presence test for "*", a substring test
\* when raw holds an asterisk, else an equality test on the decoded value
FilterItem(attr, raw) ==
    IF raw = <<"*">> THEN [kind |-> "present", attr |-> attr, ok |-> TRUE, v |-> <<>>]
    ELSE IF \E i \in 1..Len(raw) : raw[i] = "*"
    THEN [kind |-> "substrings", attr |-> attr, ok |-> TRUE, v |-> raw]
    ELSE [kind |-> "equality", attr |-> attr, ok |-> DecodeFilterValue(raw).ok,
          v |-> DecodeFilterValue(raw).v]

\* an item put in front of the parsed rest r = [ok, items]
ConsItem(it, r) == [ok |-> it.ok /\ r.ok, items |-> <<it>> \o r.items]

\* the items "(attr=value)" of s from position i up to the ")" that closes
\* the list and the filter; a value ends at the first ")"
RECURSIVE ParseItems(_, _)
ParseItems(s, i) ==
    IF i > Len(s) THEN [ok |-> FALSE, items |-> <<>>]
    ELSE IF s[i] = ")" THEN [ok |-> i = Len(s), items |-> <<>>]
    ELSE IF s[i] # "(" \/ ScanTo(s, i + 1, ")") > Len(s)
              \/ ScanTo(s, i + 1, "=") > ScanTo(s, i + 1, ")")
    THEN [ok |-> FALSE, items |-> <<>>]
    ELSE ConsItem(FilterItem(SubSeq(s, i + 1, ScanTo(s, i + 1, "=") - 1),
                             SubSeq(s, ScanTo(s, i + 1, "=") + 1, ScanTo(s, i + 1, ")") - 1)),
                  ParseItems(s, ScanTo(s, i + 1, ")") + 1))

\* ldap.CompileFilter for a conjunction "(&(..)(..))" or for one item
\* "(attr=value)": [ok, items]
CompileFilter(s) ==
    IF Len(s) >= 2 /\ s[1] = "(" /\ s[2] = "&" THEN ParseItems(s, 3)
    ELSE IF Len(s) >= 2 /\ s[1] = "(" /\ ScanTo(s, 2, ")") = Len(s)
    THEN ParseItems(s \o <<")">>, 1)
    ELSE [ok |-> FALSE, items |-> <<>>]

\* the characters a backslash may precede in a DN string
DNSpecial == {"\\", ",", "+", "\"", "<", ">", ";", "=", " ", "#"}

\* the position of the first character of seps in s at or after i that is
\* not escaped by a backslash, Len(s) + 1 if there is none
RECURSIVE Unescaped(_, _, _)
Unescaped(s, i, seps) ==
    IF i > Len(s) THEN Len(s) + 1
    ELSE IF s[i] = "\\" THEN Unescaped(s, i + 2, seps)
    ELSE IF s[i] \in seps THEN i
    ELSE Unescaped(s, i + 1, seps)

\* the characters of an RDN value, each with whether it was escaped: a
\* backslash is followed by a special character or by two hexadecimal digits
RECURSIVE DecodeDNValue(_)
DecodeDNValue(raw) ==
    IF raw = <<>> THEN [ok |-> TRUE, v |-> <<>>]
    ELSE IF Head(raw) # "\\"
    THEN Cons([c |-> Head(raw), esc |-> FALSE], DecodeDNValue(Tail(raw)))
    ELSE IF Len(raw) >= 2 /\ raw[2] \in DNSpecial
    THEN Cons([c |-> raw[2], esc |-> TRUE], DecodeDNValue(SubSeq(raw, 3, Len(raw))))
    ELSE IF Len(raw) >= 3 /\ HexVal(raw[2]) >= 0 /\ HexVal(raw[3]) >= 0
    THEN Cons([c |-> ByteChar(16 * HexVal(raw[2]) + HexVal(raw[3])), esc |-> TRUE],
              DecodeDNValue(SubSeq(raw, 4, Len(raw))))
    ELSE [ok |-> FALSE, v |-> <<>>]

\* spaces at the start and at the end of a value that are not escaped are
\* not part of the value
RECURSIVE TrimLeft(_)
TrimLeft(cs) ==
    IF cs # <<>> /\ Head(cs) = [c |-> " ", esc |-> FALSE] THEN TrimLeft(Tail(cs)) ELSE cs

RECURSIVE TrimRight(_)
TrimRight(cs) ==
    IF cs # <<>> /\ cs[Len(cs)] = [c |-> " ", esc |-> FALSE]
    THEN TrimRight(SubSeq(cs, 1, Len(cs) - 1)) ELSE cs

\* the value an RDN "type=raw" holds: a raw text that starts with "#" is the
\* hexadecimal form of a BER-encoded value, not the text itself
RDNValue(raw) ==
    IF raw # <<>> /\ raw[1] = "#"
    THEN [ok |-> Len(raw) > 1 /\ (Len(raw) - 1) % 2 = 0
                   /\ \A i \in 2..Len(raw) : HexVal(raw[i]) >= 0,
          v |-> <<"BER">> \o Tail(raw)]
    ELSE [ok |-> DecodeDNValue(raw).ok,
          v |-> [i \in 1..Len(TrimRight(TrimLeft(DecodeDNValue(raw).v))) |->
                    TrimRight(TrimLeft(DecodeDNValue(raw).v))[i].c]]

\* the first RDN of a DN as written: the text before the first comma that is
\* not escaped
FirstRDN(dn) == SubSeq(dn, 1, Unescaped(dn, 1, {","}) - 1)

\* a DN string read under the DN quoting rules: the attribute type and the
\* value of its first RDN, whether that RDN has more than one value, and the
\* DN of the parent
ParseDN(dn) ==
    [ok |-> /\ Unescaped(FirstRDN(dn), 1, {"="}) <= Len(FirstRDN(dn))
            /\ RDNValue(SubSeq(FirstRDN(dn), Unescaped(FirstRDN(dn), 1, {"="}) + 1,
                                Len(FirstRDN(dn)))).ok,
     type |-> SubSeq(FirstRDN(dn), 1, Unescaped(FirstRDN(dn), 1, {"="}) - 1),
     value |-> RDNValue(SubSeq(FirstRDN(dn), Unescaped(FirstRDN(dn), 1, {"="}) + 1,
                               Len(FirstRDN(dn)))).v,
     multi |-> Unescaped(FirstRDN(dn), 1, {"+"}) <= Len(FirstRDN(dn)),
     parent |-> SubSeq(dn, Unescaped(dn, 1, {","}) + 1, Len(dn))]

-----------------------------------------------------------------------------
(* The directory server and the go-ldap session (the far side of c.conn) *)

\* one directory object; an attribute that is not set holds <<>>, which is
\* what Entry.GetAttributeValue returns for it
Entry(dn, class, cn, sam, description, groupType, managedBy, member) ==
    [dn |-> dn, class |-> class, cn |-> cn, name |-> cn, sam |-> sam,
     description |-> description, groupType |-> groupType,
     managedBy |-> managedBy, member |-> member,
     guid |-> <<"guid-of-">> \o Fold(dn), sid |-> <<"sid-of-">> \o Fold(dn)]

\* the server matches DNs case-insensitively
Lookup(d, dn) == {e \in d : Fold(e.dn) = Fold(dn)}

\* LDAPResultCodeMap of go-ldap, for the result codes the model's server uses
ResultName(code) ==
    CASE code = "16"  -> <<"No", "Such", "Attribute">>
      [] code = "20"  -> <<"Attribute", "Or", "Value", "Exists">>
      [] code = "21"  -> <<"Invalid", "Attribute", "Syntax">>
      [] code = "32"  -> <<"No", "Such", "Object">>
      [] code = "34"  -> <<"Invalid", "DN", "Syntax">>
      [] code = "53"  -> <<"Unwilling", "To", "Perform">>
      [] code = "68"  -> <<"Entry", "Already", "Exists">>
      [] code = "200" -> <<"Network", "Error">>
      [] code = "201" -> <<"Filter", "Compile", "Error">>

\* the diagnostic message the server sends with a result code
Diag(code, srv) ==
    IF srv = "ad"
    THEN CASE code = "16" -> <<"00002085", ":", "AtrErr", ":", "problem", "1001", "(", "NO_ATTRIBUTE_OR_VAL", ")">>
           [] code = "32" -> <<"0000208D", ":", "NameErr", ":", "problem", "2001", "(", "NO_OBJECT", ")">>
           [] code = "53" -> <<"00000561", ":", "SvcErr", ":", "problem", "5003", "(", "WILL_NOT_PERFORM", ")">>
           [] code = "68" -> <<"00002071", ":", "UpdErr", ":", "problem", "6005", "(", "ENTRY_EXISTS", ")">>
           [] OTHER -> <<>>
    ELSE CASE code = "16" -> <<"modify/delete", ":", "no", "such", "value">>
           [] code = "20" -> <<"modify/add", ":", "value", "#0", "already", "exists">>
           [] OTHER -> <<>>

\* ldap.Error.Error(): "LDAP Result Code %d %q: %s"
LdapError(code, diag) ==
    <<"LDAP", "Result", "Code", code, "\"">> \o ResultName(code) \o <<"\"", ":">> \o diag

\* a session that is closed or lost answers every call with a network error
NetworkError == LdapError("200", <<"ldap", ":", "connection", "closed">>)

\* the server's answer to a search with scope base: result 32 when the base
\* DN names no object, else the object if it passes the objectClass filter
SrvSearchBase(d, srv, dn, class) ==
    IF Lookup(d, dn) = {}
    THEN [err |-> LdapError("32", Diag("32", srv)), entries |-> <<>>]
    ELSE LET e == CHOOSE x \in Lookup(d, dn) : TRUE
         IN  [err |-> <<>>, entries |-> IF e.class = class THEN <<e>> ELSE <<>>]

\* whether dn lies in the subtree of base
Under(dn, base) ==
    Len(dn) >= Len(base) /\ Fold(SubSeq(dn, Len(dn) - Len(base) + 1, Len(dn))) = Fold(base)

\* whether the entry e passes one filter item; cn matches case-insensitively
\* and a substring item matches when each of its pieces occurs in the value
MatchItem(e, it) ==
    CASE it.attr = <<"objectClass">> ->
           it.kind = "present" \/ (it.kind = "equality" /\ it.v = <<e.class>>)
      [] it.attr = <<"cn">> ->
           \/ it.kind = "present"
           \/ it.kind = "equality" /\ Fold(it.v) = Fold(e.cn)
           \/ it.kind = "substrings"
                 /\ \A k \in 1..Len(Split(it.v, "*")) : Contains(e.cn, Split(it.v, "*")[k])
      [] OTHER -> FALSE

\* the answer to a search with scope subtree and the filter text s: go-ldap
\* refuses a filter it cannot compile; the server returns the entries under
\* base that pass every item (as a set: their order is the server's)
SrvSearchSubtree(d, srv, base, s) ==
    IF ~CompileFilter(s).ok
    THEN [err |-> LdapError("201", <<"ldap", ":", "error", "parsing", "filter">>), entries |-> {}]
    ELSE [err |-> <<>>,
          entries |-> {e \in d : /\ Under(e.dn, base)
                                  /\ \A k \in 1..Len(CompileFilter(s).items) :
                                        MatchItem(e, CompileFilter(s).items[k])}]

\* the server's answer to an add: result 68 when the DN is taken
SrvAdd(d, srv, e) ==
    IF Lookup(d, e.dn) # {}
    THEN [err |-> LdapError("68", Diag("68", srv)), dir |-> d]
    ELSE [err |-> <<>>, dir |-> d \cup {e}]

\* the server's answer to a delete: result 32 when the DN names no object
SrvDelete(d, srv, dn) ==
    IF Lookup(d, dn) = {}
    THEN [err |-> LdapError("32", Diag("32", srv)), dir |-> d]
    ELSE [err |-> <<>>, dir |-> d \ Lookup(d, dn)]

\* the value the server stores for a DN-valued attribute: Active Directory
\* stores the referenced object's own DN, other servers the DN as sent
StoredRef(d, srv, ref) ==
    IF srv = "ad" /\ Lookup(d, ref) # {} THEN (CHOOSE x \in Lookup(d, ref) : TRUE).dn ELSE ref

RemoveFold(members, ref) == SelectSeq(members, LAMBDA m : Fold(m) # Fold(ref))

HasFold(members, ref) == \E i \in 1..Len(members) : Fold(members[i]) = Fold(ref)

\* one change of a modify request applied to an entry: [err, entry]; a
\* replace by an empty value, or of managedBy by a text that is no DN, is
\* refused for its syntax
ApplyChange(d, srv, e, ch) ==
    CASE ch.op = "replace" ->
           IF ch.vals[1] = <<>>
           THEN [err |-> LdapError("21", Diag("21", srv)), entry |-> e]
           ELSE IF ch.attr = "managedBy" /\ ~ParseDN(ch.vals[1]).ok
           THEN LET code == IF srv = "ad" THEN "34" ELSE "21"
                IN  [err |-> LdapError(code, Diag(code, srv)), entry |-> e]
           ELSE [err |-> <<>>,
                 entry |-> [e EXCEPT ![ch.attr] = IF ch.attr = "managedBy"
                                                  THEN StoredRef(d, srv, ch.vals[1]) ELSE ch.vals[1]]]
      [] ch.op = "delete" /\ ch.vals = <<>> ->
           IF e[ch.attr] = <<>>
           THEN [err |-> LdapError("16", Diag("16", srv)), entry |-> e]
           ELSE [err |-> <<>>, entry |-> [e EXCEPT ![ch.attr] = <<>>]]
      [] ch.op = "delete" /\ ch.vals # <<>> ->
           IF ~HasFold(e.member, ch.vals[1])
           THEN LET code == IF srv = "ad" THEN "53" ELSE "16"
                IN  [err |-> LdapError(code, Diag(code, srv)), entry |-> e]
           ELSE [err |-> <<>>, entry |-> [e EXCEPT !.member = RemoveFold(e.member, ch.vals[1])]]
      [] ch.op = "add" ->
           IF srv = "ad" /\ Lookup(d, ch.vals[1]) = {}
           THEN [err |-> LdapError("32", Diag("32", srv)), entry |-> e]
           ELSE IF HasFold(e.member, ch.vals[1])
           THEN LET code == IF srv = "ad" THEN "68" ELSE "20"
                IN  [err |-> LdapError(code, Diag(code, srv)), entry |-> e]
           ELSE [err |-> <<>>, entry |-> [e EXCEPT !.member = Append(e.member, StoredRef(d, srv, ch.vals[1]))]]

\* a modify request is atomic: all changes apply or none does
RECURSIVE ApplyChanges(_, _, _, _)
ApplyChanges(d, srv, e, changes) ==
    IF changes = <<>> THEN [err |-> <<>>, entry |-> e]
    ELSE LET r == ApplyChange(d, srv, e, Head(changes))
         IN  IF r.err # <<>> THEN r ELSE ApplyChanges(d, srv, r.entry, Tail(changes))

\* the server's answer to a modify: result 32 when the DN names no object
SrvModify(d, srv, dn, changes) ==
    IF Lookup(d, dn) = {}
    THEN [err |-> LdapError("32", Diag("32", srv)), dir |-> d]
    ELSE LET e == CHOOSE x \in Lookup(d, dn) : TRUE
             r == ApplyChanges(d, srv, e, changes)
         IN  IF r.err # <<>> THEN [err |-> r.err, dir |-> d]
             ELSE [err |-> <<>>, dir |-> (d \ {e}) \cup {r.entry}]

\* the server's answer to a rename (ModifyDN with delete-old-RDN): result 32
\* when the DN names no object, 68 when the new DN is taken
SrvModifyDN(d, srv, dn, newRDN, newSuperior) ==
    LET newDN == newRDN \o <<",">> \o newSuperior
    IN  IF Lookup(d, dn) = {}
        THEN [err |-> LdapError("32", Diag("32", srv)), dir |-> d]
        ELSE IF Lookup(d, newDN) # {} /\ Fold(newDN) # Fold(dn)
        THEN [err |-> LdapError("68", Diag("68", srv)), dir |-> d]
        ELSE LET e == CHOOSE x \in Lookup(d, dn) : TRUE
             IN  [err |-> <<>>, dir |-> (d \ {e}) \cup {[e EXCEPT !.dn = newDN]}]

-----------------------------------------------------------------------------
(* internal/client: Client.Search, Add, Modify, Delete (client.go) *)
(* A result carries err (<<>> is nil), reqs (the calls made on c.conn, in  *)
(* order) and the directory after the call.                                *)

NotConnected == <<"LDAP", "connection", "is", "not", "established">>

\* fmt.Errorf(prefix + ": %w", err) on the err != nil branch, nil otherwise
Wrap(prefix, err) == IF err = <<>> THEN <<>> ELSE prefix \o <<":">> \o err

\* a session that redials when it finds itself closed or lost
ConnSearchReconnect(c, d, srv, dn, class) == SrvSearchBase(d, srv, dn, class)

\* c.conn.Search on a session that is open, or closed or lost
ConnSearch(c, d, srv, dn, class) ==
    IF c = "open" THEN SrvSearchBase(d, srv, dn, class) ELSE [err |-> NetworkError, entries |-> <<>>]

ConnAdd(c, d, srv, e) ==
    IF c = "open" THEN SrvAdd(d, srv, e) ELSE [err |-> NetworkError, dir |-> d]

ConnModify(c, d, srv, dn, changes) ==
    IF c = "open" THEN SrvModify(d, srv, dn, changes) ELSE [err |-> NetworkError, dir |-> d]

ConnDel(c, d, srv, dn) ==
    IF c = "open" THEN SrvDelete(d, srv, dn) ELSE [err |-> NetworkError, dir |-> d]

ConnModifyDN(c, d, srv, dn, newRDN, newSuperior) ==
    IF c = "open" THEN SrvModifyDN(d, srv, dn, newRDN, newSuperior) ELSE [err |-> NetworkError, dir |-> d]

ConnSearchSubtree(c, d, srv, base, s) ==
    IF c = "open" THEN SrvSearchSubtree(d, srv, base, s) ELSE [err |-> NetworkError, entries |-> {}]

\* a Close that reports a session it finds closed already
CloseStrict(c) ==
    IF c = "open" THEN [err |-> <<>>, conn |-> "closed"]
    ELSE IF c = "nil" THEN [err |-> <<>>, conn |-> c]
    ELSE [err |-> NetworkError, conn |-> c]

\* Client.Close: closes the session if there is one and returns nil; the
\* session object stays in place, and closing a session that is closed or
\* lost changes nothing
Close(c) ==
    IF c = "open" THEN [err |-> <<>>, conn |-> "closed"] ELSE [err |-> <<>>, conn |-> c]

\* the return statements of Search, given the reply r of c.conn.Search
SearchReturn(r) ==
    [err |-> Wrap(<<"LDAP", "search", "failed">>, r.err), reqs |-> <<"search">>, entries |-> r.entries]

\* Client.Search with scope base and filter (objectClass=class)
Search(c, d, srv, dn, class) ==
    IF c = "nil"
    THEN [err |-> NotConnected, reqs |-> <<>>, entries |-> <<>>]
    ELSE SearchReturn(ConnSearch(c, d, srv, dn, class))

\* Client.Search with scope subtree and a filter text
SearchSubtree(c, d, srv, base, s) ==
    IF c = "nil"
    THEN [err |-> NotConnected, reqs |-> <<>>, entries |-> {}]
    ELSE SearchReturn(ConnSearchSubtree(c, d, srv, base, s))

\* the return statements of Add, Modify and Delete, given the reply r of c.conn
WriteReturn(name, r) ==
    [err |-> Wrap(<<"LDAP", name, "failed">>, r.err), reqs |-> <<name>>, dir |-> r.dir]

\* Client.Add
Add(c, d, srv, e) ==
    IF c = "nil"
    THEN [err |-> NotConnected, reqs |-> <<>>, dir |-> d]
    ELSE WriteReturn("add", ConnAdd(c, d, srv, e))

\* Client.Modify
Modify(c, d, srv, dn, changes) ==
    IF c = "nil"
    THEN [err |-> NotConnected, reqs |-> <<>>, dir |-> d]
    ELSE WriteReturn("modify", ConnModify(c, d, srv, dn, changes))

\* Client.Delete
Delete(c, d, srv, dn) ==
    IF c = "nil"
    THEN [err |-> NotConnected, reqs |-> <<>>, dir |-> d]
    ELSE WriteReturn("delete", ConnDel(c, d, srv, dn))

-----------------------------------------------------------------------------
(* internal/client: the group accessors (group.go) *)

\* the Group struct filled from a search entry
GroupOf(e) ==
    [DN |-> e.dn, CN |-> e.cn, Name |-> e.name, SamAccountName |-> e.sam,
     Description |-> e.description, GroupType |-> e.groupType,
     ManagedBy |-> e.managedBy, Members |-> e.member,
     ObjectGUID |-> e.guid, ObjectSid |-> e.sid]

\* the nil *Group returned next to an error
NoGroup ==
    [DN |-> <<>>, CN |-> <<>>, Name |-> <<>>, SamAccountName |-> <<>>,
     Description |-> <<>>, GroupType |-> <<>>, ManagedBy |-> <<>>, Members |-> <<>>,
     ObjectGUID |-> <<>>, ObjectSid |-> <<>>]

\* GetGroup after its search returned r
GetGroupReturn(dn, r) ==
    IF r.err # <<>>
    THEN [err |-> Wrap(<<"failed", "to", "search", "for", "group">> \o dn, r.err),
          reqs |-> r.reqs, group |-> NoGroup]
    ELSE IF Len(r.entries) = 0
    THEN [err |-> <<"group", "not", "found", ":">> \o dn, reqs |-> r.reqs, group |-> NoGroup]
    ELSE [err |-> <<>>, reqs |-> r.reqs, group |-> GroupOf(r.entries[1])]

\* Client.GetGroup
GetGroup(c, d, srv, dn) == GetGroupReturn(dn, Search(c, d, srv, dn, "group"))

\* fmt.Sprintf("(&(objectClass=group)(cn=%s))", EscapeFilter(cn)); the
\* attribute names and the class name are one atom each
CnFilter(cn) ==
    <<"(", "&", "(", "objectClass", "=", "group", ")", "(", "cn", "=">> \o EscapeFilter(cn) \o <<")", ")">>

\* GetGroupByCN after its search returned r; found holds the groups the
\* call can return (it takes result.Entries[0], the first in server order)
GetGroupByCNReturn(cn, r) ==
    IF r.err # <<>>
    THEN [err |-> Wrap(<<"failed", "to", "search", "for", "group", "with", "CN">> \o cn, r.err),
          reqs |-> r.reqs, found |-> {}]
    ELSE IF r.entries = {}
    THEN [err |-> <<"group", "not", "found", "with", "CN", ":">> \o cn, reqs |-> r.reqs, found |-> {}]
    ELSE [err |-> <<>>, reqs |-> r.reqs, found |-> {GroupOf(e) : e \in r.entries}]

\* the orders in which the server can return the entries of a search result
Orders(S) ==
    {o \in [1..Cardinality(S) -> S] : \A i, j \in 1..Cardinality(S) : o[i] = o[j] => i = j}

\* a GetGroupByCN that takes the last entry of the result
GetGroupByCNGroupLast(entries) ==
    IF Len(entries) = 0 THEN NoGroup ELSE GroupOf(entries[Len(entries)])

\* the group GetGroupByCN builds when the result holds entries in this
\* order: entry := result.Entries[0]
GetGroupByCNGroup(entries) ==
    IF Len(entries) = 0 THEN NoGroup ELSE GroupOf(entries[1])

\* Client.GetGroupByCN
GetGroupByCN(c, d, srv, baseDN, cn) ==
    GetGroupByCNReturn(cn, SearchSubtree(c, d, srv, baseDN, CnFilter(cn)))

\* the default filter of ListGroups and of the groups data source
AllGroupsFilter == <<"(", "objectClass", "=", "group", ")">>

\* ListGroups after its search returned r, the result holding entries in
\* this order
ListGroupsReturn(r, entries) ==
    IF r.err # <<>>
    THEN [err |-> Wrap(<<"failed", "to", "list", "groups">>, r.err), reqs |-> r.reqs, groups |-> <<>>]
    ELSE [err |-> <<>>, reqs |-> r.reqs, groups |-> [i \in 1..Len(entries) |-> GroupOf(entries[i])]]

\* Client.ListGroups: a subtree search from the base DN
ListGroups(c, d, srv, baseDN, filter, entries) ==
    ListGroupsReturn(SearchSubtree(c, d, srv, baseDN, IF filter = <<>> THEN AllGroupsFilter ELSE filter),
                     entries)

\* fmt.Sprintf("CN=%s,%s", EscapeDN(cn), ou)
NewGroupDN(ou, cn) == <<"C", "N", "=">> \o EscapeDN(cn) \o <<",">> \o ou

\* the add request CreateGroup builds: objectClass group; cn, name and
\* sAMAccountName all cn; description if not empty; groupType in decimal
NewGroupEntry(ou, cn, description, groupType) ==
    Entry(NewGroupDN(ou, cn), "group", cn, cn, description, FormatInt(groupType), <<>>, <<>>)

\* CreateGroup's "return c.GetGroup(dn)" after the add a succeeded
CreateGroupReturn(a, g) ==
    [err |-> g.err, reqs |-> a.reqs \o g.reqs, dir |-> a.dir, group |-> g.group]

\* CreateGroup after its add returned a
CreateGroupAdded(c, srv, dn, a) ==
    IF a.err # <<>>
    THEN [err |-> Wrap(<<"failed", "to", "create", "group">> \o dn, a.err),
          reqs |-> a.reqs, dir |-> a.dir, group |-> NoGroup]
    ELSE CreateGroupReturn(a, GetGroup(c, a.dir, srv, dn))

\* Client.CreateGroup
CreateGroup(c, d, srv, ou, cn, description, groupType) ==
    CreateGroupAdded(c, srv, NewGroupDN(ou, cn),
                     Add(c, d, srv, NewGroupEntry(ou, cn, description, groupType)))

\* an UpdateGroup that skips the attributes with an empty value list
UpdateChangesSkipEmpty(updates) ==
    [i \in 1..Len(SelectSeq(updates, LAMBDA u : Len(u.vals) # 0)) |->
        [op |-> "replace", attr |-> SelectSeq(updates, LAMBDA u : Len(u.vals) # 0)[i].attr,
         vals |-> SelectSeq(updates, LAMBDA u : Len(u.vals) # 0)[i].vals]]

\* the changes UpdateGroup builds from its updates map, given as a sequence
\* of [attr, vals]: delete the attribute when vals is empty, else replace
UpdateChanges(updates) ==
    [i \in 1..Len(updates) |->
        IF Len(updates[i].vals) = 0
        THEN [op |-> "delete", attr |-> updates[i].attr, vals |-> <<>>]
        ELSE [op |-> "replace", attr |-> updates[i].attr, vals |-> updates[i].vals]]

\* the return statements of an accessor that wraps the error of one write m
AccessorReturn(prefix, m) == [err |-> Wrap(prefix, m.err), reqs |-> m.reqs, dir |-> m.dir]

\* Client.UpdateGroup
UpdateGroup(c, d, srv, dn, updates) ==
    AccessorReturn(<<"failed", "to", "update", "group">> \o dn,
                   Modify(c, d, srv, dn, UpdateChanges(updates)))

\* Client.DeleteGroup
DeleteGroup(c, d, srv, dn) ==
    AccessorReturn(<<"failed", "to", "delete", "group">> \o dn, Delete(c, d, srv, dn))

\* Client.AddMemberToGroup
AddMemberToGroup(c, d, srv, groupDN, memberDN) ==
    AccessorReturn(<<"failed", "to", "add", "member">> \o memberDN \o <<"to", "group">> \o groupDN,
                   Modify(c, d, srv, groupDN,
                          <<[op |-> "add", attr |-> "member", vals |-> <<memberDN>>]>>))

\* Client.RemoveMemberFromGroup
RemoveMemberFromGroup(c, d, srv, groupDN, memberDN) ==
    AccessorReturn(<<"failed", "to", "remove", "member">> \o memberDN \o <<"from", "group">> \o groupDN,
                   Modify(c, d, srv, groupDN,
                          <<[op |-> "delete", attr |-> "member", vals |-> <<memberDN>>]>>))

\* ldap.NewModifyDNRequest(currentDN, parts[0], true, newParentDN) with
\* parts := strings.Split(currentDN, ",")
MoveGroupRequest(currentDN, newParentDN) ==
    [dn |-> currentDN, newRDN |-> Split(currentDN, ",")[1], deleteOldRDN |-> TRUE,
     newSuperior |-> newParentDN]

\* MoveGroup after c.conn.ModifyDN returned r
MoveGroupReturn(currentDN, newDN, r) ==
    [panic |-> FALSE,
     err |-> Wrap(<<"failed", "to", "move", "group", "from">> \o currentDN \o <<"to">> \o newDN, r.err),
     reqs |-> <<"modifydn">>, dir |-> r.dir]

\* Client.MoveGroup: the new RDN is the text before the first comma.  It
\* calls c.conn.ModifyDN without the nil check of the other operations; a
\* method call through the nil *ldap.Conn panics.
MoveGroup(c, d, srv, currentDN, newParentDN) ==
    IF c = "nil"
    THEN [panic |-> TRUE, err |-> <<>>, reqs |-> <<>>, dir |-> d]
    ELSE MoveGroupReturn(currentDN,
                         MoveGroupRequest(currentDN, newParentDN).newRDN \o <<",">> \o newParentDN,
                         ConnModifyDN(c, d, srv, currentDN,
                                      MoveGroupRequest(currentDN, newParentDN).newRDN, newParentDN))

-----------------------------------------------------------------------------
(* terraform-plugin-framework values and tracked state *)

\* types.String / types.Int64: null, unknown or known; ValueString() and
\* ValueInt64() of a null or unknown value give the zero value
TfNull == [k |-> "null", v |-> <<>>]

TfStr(s) == [k |-> "known", v |-> s]

TfIntNull == [k |-> "null", v |-> 0]

TfIntUnknown == [k |-> "unknown", v |-> 0]

TfInt(n) == [k |-> "known", v |-> n]

IsSet(x) == x.k = "known"

\* GroupResourceModel with every attribute null
NullGroupModel ==
    [id |-> TfNull, dn |-> TfNull, cn |-> TfNull, name |-> TfNull, sam_account_name |-> TfNull,
     description |-> TfNull, group_type |-> TfIntNull, managed_by |-> TfNull, ou |-> TfNull,
     object_guid |-> TfNull, object_sid |-> TfNull]

\* GroupMembershipResourceModel with every attribute null
NullMemberModel == [id |-> TfNull, group_dn |-> TfNull, member_dn |-> TfNull]

\* tracked state of a resource: absent, or present with its model
Absent(model) == [present |-> FALSE, data |-> model]

Present(model) == [present |-> TRUE, data |-> model]

-----------------------------------------------------------------------------
(* internal/provider: GroupResource (resource_group.go) *)

DefaultGroupType == -2147483646

\* strconv.ParseInt(group.GroupType, 10, 64) under "if group.GroupType != """
GroupTypeValue(old, text, p) == IF text # <<>> /\ p.ok THEN TfInt(p.v) ELSE old

\* "Map response body to schema": the same statements in Create, Read and Update
SetFromGroup(data, group) ==
    [data EXCEPT
        !.id = TfStr(group.DN),
        !.dn = TfStr(group.DN),
        !.cn = TfStr(group.CN),
        !.name = TfStr(group.Name),
        !.sam_account_name = TfStr(group.SamAccountName),
        !.description = TfStr(group.Description),
        !.group_type = GroupTypeValue(@, group.GroupType, ParseInt(group.GroupType)),
        !.managed_by = TfStr(group.ManagedBy),
        !.object_guid = TfStr(group.ObjectGUID),
        !.object_sid = TfStr(group.ObjectSid)]

ClientError == <<"Client Error">>

\* a handler's return with an error diagnostic: the state is left as it was
Failed(state, d, reqs) == [diags |-> ClientError, state |-> state, dir |-> d, reqs |-> reqs]

\* a handler's return without a diagnostic
Done(state, d, reqs) == [diags |-> <<>>, state |-> state, dir |-> d, reqs |-> reqs]

\* Create after the refresh gg that follows the managedBy update
GroupCreateRefreshed(plan, d, reqs, gg) ==
    IF gg.err # <<>>
    THEN Failed(Absent(NullGroupModel), d, reqs \o gg.reqs)
    ELSE Done(Present(SetFromGroup(plan, gg.group)), d, reqs \o gg.reqs)

\* Create after the managedBy update ug of the group at dn
GroupCreateUpdated(plan, c, srv, dn, reqs, ug) ==
    IF ug.err # <<>>
    THEN Failed(Absent(NullGroupModel), ug.dir, reqs \o ug.reqs)
    ELSE GroupCreateRefreshed(plan, ug.dir, reqs \o ug.reqs, GetGroup(c, ug.dir, srv, dn))

\* Create after CreateGroup returned cg
GroupCreateCreated(plan, c, srv, cg) ==
    IF cg.err # <<>>
    THEN Failed(Absent(NullGroupModel), cg.dir, cg.reqs)
    ELSE IF IsSet(plan.managed_by)
    THEN GroupCreateUpdated(plan, c, srv, cg.group.DN, cg.reqs,
                            UpdateGroup(c, cg.dir, srv, cg.group.DN,
                                        <<[attr |-> "managedBy", vals |-> <<plan.managed_by.v>>]>>))
    ELSE Done(Present(SetFromGroup(plan, cg.group)), cg.dir, cg.reqs)

\* GroupResource.Create: [diags, state, dir, reqs]
GroupCreate(plan, c, d, srv) ==
    GroupCreateCreated(plan, c, srv,
        CreateGroup(c, d, srv, plan.ou.v, plan.cn.v, plan.description.v,
                    IF IsSet(plan.group_type) THEN plan.group_type.v ELSE DefaultGroupType))

\* the phrase the handlers look for in an error text
NotFound == <<"not", "found">>

\* Read after GetGroup returned g; RemoveResource leaves the state absent
GroupReadReturn(state, d, g) ==
    IF g.err # <<>>
    THEN IF Contains(g.err, NotFound)
         THEN Done(Absent(NullGroupModel), d, g.reqs)
         ELSE Failed(state, d, g.reqs)
    ELSE Done(Present(SetFromGroup(state.data, g.group)), d, g.reqs)

\* a Read that computes the DN from cn and ou
GroupReadRecomputed(state, c, d, srv) ==
    GroupReadReturn(state, d, GetGroup(c, d, srv, NewGroupDN(state.data.ou.v, state.data.cn.v)))

\* GroupResource.Read: [diags, state, dir, reqs]
GroupRead(state, c, d, srv) == GroupReadReturn(state, d, GetGroup(c, d, srv, state.data.dn.v))

\* an updates map that names the description whether it changed or not
GroupUpdatesAlways(plan, prior) ==
    {[attr |-> "description",
      vals |-> IF plan.description.k = "null" THEN <<>> ELSE <<plan.description.v>>]}
    \cup {[attr |-> "groupType", vals |-> <<FormatInt(plan.group_type.v)>>] :
        x \in {1} \cap (IF plan.group_type # prior.group_type THEN {1} ELSE {})}

\* the updates map of Update, as a set: an attribute is named when its
\* planned value is not Equal to the one of the prior state
GroupUpdates(plan, prior) ==
    {[attr |-> "description",
      vals |-> IF plan.description.k = "null" THEN <<>> ELSE <<plan.description.v>>] :
        x \in {1} \cap (IF plan.description # prior.description THEN {1} ELSE {})}
    \cup {[attr |-> "managedBy",
           vals |-> IF plan.managed_by.k = "null" THEN <<>> ELSE <<plan.managed_by.v>>] :
        x \in {1} \cap (IF plan.managed_by # prior.managed_by THEN {1} ELSE {})}
    \cup {[attr |-> "groupType", vals |-> <<FormatInt(plan.group_type.v)>>] :
        x \in {1} \cap (IF plan.group_type # prior.group_type THEN {1} ELSE {})}

\* Update after the refresh gg
GroupUpdateRefreshed(plan, state, d, reqs, gg) ==
    IF gg.err # <<>>
    THEN Failed(state, d, reqs \o gg.reqs)
    ELSE Done(Present(SetFromGroup(plan, gg.group)), d, reqs \o gg.reqs)

\* Update after UpdateGroup returned ug
GroupUpdateUpdated(plan, state, c, srv, ug) ==
    IF ug.err # <<>>
    THEN Failed(state, ug.dir, ug.reqs)
    ELSE GroupUpdateRefreshed(plan, state, ug.dir, ug.reqs, GetGroup(c, ug.dir, srv, plan.dn.v))

\* GroupResource.Update with the updates map ranged over in the order of
\* the sequence updates: [diags, state, dir, reqs]
GroupUpdate(plan, state, c, d, srv, updates) ==
    IF Len(updates) > 0
    THEN GroupUpdateUpdated(plan, state, c, srv, UpdateGroup(c, d, srv, plan.dn.v, updates))
    ELSE GroupUpdateRefreshed(plan, state, d, <<>>, GetGroup(c, d, srv, plan.dn.v))

\* GroupResource.ImportState: dn and id are the given id, all else is null
GroupImportState(id) ==
    Done(Present([NullGroupModel EXCEPT !.dn = TfStr(id), !.id = TfStr(id)]), {}, <<>>)

\* Delete after DeleteGroup returned r; the framework drops the state when
\* Delete returns without an error diagnostic
GroupDeleteReturn(state, r) ==
    IF r.err # <<>> /\ ~Contains(r.err, NotFound)
    THEN Failed(state, r.dir, r.reqs)
    ELSE Done(Absent(NullGroupModel), r.dir, r.reqs)

\* GroupResource.Delete: [diags, state, dir, reqs]
GroupDelete(state, c, d, srv) == GroupDeleteReturn(state, DeleteGroup(c, d, srv, state.data.dn.v))

-----------------------------------------------------------------------------
(* internal/provider: GroupMembershipResource (resource_group_membership.go) *)

\* an identifier joined with another separator
MemberIdColon(groupDN, memberDN) == groupDN \o <<":">> \o memberDN

\* fmt.Sprintf("%s|%s", groupDN, memberDN)
MemberId(groupDN, memberDN) == groupDN \o <<"|">> \o memberDN

\* the loop over group.Members in Read
MemberFoundExact(members, memberDN) ==
    \E i \in 1..Len(members) : EqualExact(members[i], memberDN)

MemberFound(members, memberDN) ==
    \E i \in 1..Len(members) : EqualFold(members[i], memberDN)

\* Create after AddMemberToGroup returned a
\* a Create that writes state whatever the add returned
MemberCreateAddedAlways(plan, reqs, a) ==
    Done(Present([plan EXCEPT !.id = TfStr(MemberId(plan.group_dn.v, plan.member_dn.v))]),
         a.dir, reqs \o a.reqs)

MemberCreateAdded(plan, reqs, a) ==
    IF a.err # <<>>
    THEN Failed(Absent(NullMemberModel), a.dir, reqs \o a.reqs)
    ELSE Done(Present([plan EXCEPT !.id = TfStr(MemberId(plan.group_dn.v, plan.member_dn.v))]),
              a.dir, reqs \o a.reqs)

\* Create after the existence check g
MemberCreateChecked(plan, c, d, srv, g) ==
    IF g.err # <<>>
    THEN Failed(Absent(NullMemberModel), d, g.reqs)
    ELSE MemberCreateAdded(plan, g.reqs,
                           AddMemberToGroup(c, d, srv, plan.group_dn.v, plan.member_dn.v))

\* GroupMembershipResource.Create: [diags, state, dir, reqs]
MemberCreate(plan, c, d, srv) ==
    MemberCreateChecked(plan, c, d, srv, GetGroup(c, d, srv, plan.group_dn.v))

\* Read after GetGroup returned g
MemberReadReturn(state, d, g) ==
    IF g.err # <<>>
    THEN IF Contains(g.err, NotFound)
         THEN Done(Absent(NullMemberModel), d, g.reqs)
         ELSE Failed(state, d, g.reqs)
    ELSE IF ~MemberFound(g.group.Members, state.data.member_dn.v)
    THEN Done(Absent(NullMemberModel), d, g.reqs)
    ELSE Done(state, d, g.reqs)

\* GroupMembershipResource.Read: [diags, state, dir, reqs]
MemberRead(state, c, d, srv) ==
    MemberReadReturn(state, d, GetGroup(c, d, srv, state.data.group_dn.v))

\* the error texts Delete accepts as "already removed"
AlreadyRemoved(err) ==
    \/ Contains(err, NotFound)
    \/ Contains(err, <<"does", "not", "exist">>)
    \/ Contains(err, <<"no", "such", "object">>)

\* Delete after RemoveMemberFromGroup returned r
MemberDeleteReturn(state, r) ==
    IF r.err # <<>> /\ ~AlreadyRemoved(r.err)
    THEN Failed(state, r.dir, r.reqs)
    ELSE Done(Absent(NullMemberModel), r.dir, r.reqs)

\* GroupMembershipResource.Delete: [diags, state, dir, reqs]
MemberDelete(state, c, d, srv) ==
    MemberDeleteReturn(state,
        RemoveMemberFromGroup(c, d, srv, state.data.group_dn.v, state.data.member_dn.v))

\* ImportState after strings.Split(req.ID, "|") returned parts; set lists
\* the attributes SetAttribute was called for
MemberImportParts(id, parts) ==
    IF Len(parts) # 2
    THEN [diags |-> <<"Unexpected Import Identifier">>, set |-> {},
          state |-> Absent(NullMemberModel)]
    ELSE [diags |-> <<>>, set |-> {"id", "group_dn", "member_dn"},
          state |-> Present([id |-> TfStr(id), group_dn |-> TfStr(parts[1]),
                             member_dn |-> TfStr(parts[2])])]

\* GroupMembershipResource.ImportState: [diags, set, state]
MemberImportState(id) == MemberImportParts(id, Split(id, "|"))

-----------------------------------------------------------------------------
(* internal/client: NewClient and connect (client.go) *)

\* a connect that leaves the dialed connection open when the bind fails
ConnectNoClose(useTLS, dialOK, bindOK) ==
    IF ~dialOK
    THEN [err |-> <<"failed", "to", "dial", "LDAP", "server">>, conn |-> "nil",
          calls |-> <<IF useTLS THEN "dialtls" ELSE "dial">>]
    ELSE IF ~bindOK
    THEN [err |-> <<"failed", "to", "bind", "to", "LDAP", "server">>, conn |-> "open",
          calls |-> <<IF useTLS THEN "dialtls" ELSE "dial", "bind">>]
    ELSE [err |-> <<>>, conn |-> "open",
          calls |-> <<IF useTLS THEN "dialtls" ELSE "dial", "bind">>]

\* Client.connect: one dial (DialTLS when useTLS), then one bind; a failed
\* bind closes the dialed connection.  dialOK, bindOK: what the network and
\* the server answer.
Connect(useTLS, dialOK, bindOK) ==
    IF ~dialOK
    THEN [err |-> <<"failed", "to", "dial", "LDAP", "server">>, conn |-> "nil",
          calls |-> <<IF useTLS THEN "dialtls" ELSE "dial">>]
    ELSE IF ~bindOK
    THEN [err |-> <<"failed", "to", "bind", "to", "LDAP", "server">>, conn |-> "closed",
          calls |-> <<IF useTLS THEN "dialtls" ELSE "dial", "bind", "close">>]
    ELSE [err |-> <<>>, conn |-> "open",
          calls |-> <<IF useTLS THEN "dialtls" ELSE "dial", "bind">>]

\* client.NewClient: [err, client, conn, calls]; client is FALSE for the nil *Client
NewClientReturn(r) ==
    [err |-> Wrap(<<"failed", "to", "connect", "to", "LDAP", "server">>, r.err),
     client |-> r.err = <<>>, conn |-> r.conn, calls |-> r.calls]

NewClient(config, dialOK, bindOK) == NewClientReturn(Connect(config.UseTLS, dialOK, bindOK))

-----------------------------------------------------------------------------
(* internal/provider: ADGroupsProvider.Configure (provider.go) *)

TrueStr == <<"t", "r", "u", "e">>

\* value := data.X.ValueString(); if value == "" { value = os.Getenv(...) }
WithEnv(value, envValue) == IF value = <<>> THEN envValue ELSE value

\* the port chosen when data.Port is 0
DefaultPort(cfg, env) ==
    IF env.AD_PORT # <<>> THEN 389
    ELSE IF cfg.use_tls \/ env.AD_USE_TLS = TrueStr THEN 636
    ELSE 389

\* the first missing setting, in the order Configure tests them; <<>> if none
MissingNoPassword(server, baseDN, username, password) ==
    IF server = <<>> THEN <<"Missing AD Server Configuration">>
    ELSE IF baseDN = <<>> THEN <<"Missing AD Base DN Configuration">>
    ELSE IF username = <<>> THEN <<"Missing AD Username Configuration">>
    ELSE <<>>

Missing(server, baseDN, username, password) ==
    IF server = <<>> THEN <<"Missing AD Server Configuration">>
    ELSE IF baseDN = <<>> THEN <<"Missing AD Base DN Configuration">>
    ELSE IF username = <<>> THEN <<"Missing AD Username Configuration">>
    ELSE IF password = <<>> THEN <<"Missing AD Password Configuration">>
    ELSE <<>>

\* ADGroupsProvider.Configure: [diags, client, conn, calls, config]
\* the ClientConfig Configure fills in
ClientConfig(cfg, env) ==
    [Server |-> WithEnv(cfg.server, env.AD_SERVER),
     Port |-> IF cfg.port = 0 THEN DefaultPort(cfg, env) ELSE cfg.port,
     BaseDN |-> WithEnv(cfg.base_dn, env.AD_BASE_DN),
     Username |-> WithEnv(cfg.username, env.AD_USERNAME),
     Password |-> WithEnv(cfg.password, env.AD_PASSWORD),
     UseTLS |-> cfg.use_tls \/ env.AD_USE_TLS = TrueStr,
     Insecure |-> cfg.insecure \/ env.AD_INSECURE = TrueStr]

\* Configure after client.NewClient returned n
ConfigureReturn(config, n) ==
    [diags |-> IF n.err # <<>> THEN <<"Unable to Create AD Client">> ELSE <<>>,
     client |-> n.client, conn |-> n.conn, calls |-> n.calls, config |-> config]

\* Configure with the settings resolved to config
ConfigureWith(config, dialOK, bindOK) ==
    IF Missing(config.Server, config.BaseDN, config.Username, config.Password) # <<>>
    THEN [diags |-> Missing(config.Server, config.BaseDN, config.Username, config.Password),
          client |-> FALSE, conn |-> "nil", calls |-> <<>>, config |-> config]
    ELSE ConfigureReturn(config, NewClient(config, dialOK, bindOK))

\* ADGroupsProvider.Configure: [diags, client, conn, calls, config]
Configure(cfg, env, dialOK, bindOK) == ConfigureWith(ClientConfig(cfg, env), dialOK, bindOK)

-----------------------------------------------------------------------------
(* The values the operations are run on *)

BaseDN == <<"D", "C", "=", "x">>

OtherOU == <<"O", "U", "=", "o", ",", "D", "C", "=", "x">>

\* "CN=g,DC=x", the DN CreateGroup builds for cn "g" under BaseDN
GroupDN == <<"C", "N", "=", "g", ",", "D", "C", "=", "x">>

\* "CN=u,DC=x", a user that exists in the directory
UserDN == <<"C", "N", "=", "u", ",", "D", "C", "=", "x">>

\* "CN=v,DC=x", a DN that names no object
GhostDN == <<"C", "N", "=", "v", ",", "D", "C", "=", "x">>

GroupTypes == {DefaultGroupType, 2147483647, 8}

MemberDNs == {UserDN, Fold(UserDN), GhostDN}

GroupPlans ==
    {[NullGroupModel EXCEPT !.cn = TfStr(<<"g">>), !.ou = TfStr(BaseDN), !.description = desc,
                            !.group_type = gt, !.managed_by = mb,
                            !.id = [k |-> "unknown", v |-> <<>>], !.dn = [k |-> "unknown", v |-> <<>>],
                            !.name = [k |-> "unknown", v |-> <<>>],
                            !.sam_account_name = sam,
                            !.object_guid = [k |-> "unknown", v |-> <<>>],
                            !.object_sid = [k |-> "unknown", v |-> <<>>]] :
        desc \in {TfNull, TfStr(<<"Engineering team">>)},
        gt \in {TfIntUnknown} \cup {TfInt(g) : g \in GroupTypes},
        mb \in {TfNull, TfStr(UserDN), TfStr(<<"b", "o", "b">>)},
        sam \in {[k |-> "unknown", v |-> <<>>], TfStr(<<"s">>)}}

\* the plans of an Update: the computed attributes, cn and ou come from the
\* prior state; description, managed_by and group_type from the configuration
GroupUpdatePlans(prior) ==
    {[prior EXCEPT !.description = desc, !.group_type = gt, !.managed_by = mb] :
        desc \in {TfNull, TfStr(<<"Engineering team">>)},
        gt \in {prior.group_type, TfInt(8)},
        mb \in {TfNull, TfStr(UserDN)}}

\* the ids given to the import of a group: its DN as the directory holds
\* it and in lower case
GroupImportIds == {GroupDN, Fold(GroupDN)}

MemberPlans ==
    {[id |-> [k |-> "unknown", v |-> <<>>], group_dn |-> TfStr(GroupDN), member_dn |-> TfStr(m)] :
        m \in MemberDNs}

\* import identifiers given to the membership resource in the running system
ImportIds == {MemberId(GroupDN, UserDN), GroupDN, MemberId(MemberId(GroupDN, UserDN), UserDN)}

ProviderConfigs ==
    [server : {<<>>, <<"h">>}, port : {0, 636, 3268}, base_dn : {<<>>, BaseDN},
     username : {<<>>, <<"a">>}, password : {<<>>, <<"p">>}, use_tls : BOOLEAN, insecure : {FALSE}]

Environments ==
    [AD_SERVER : {<<>>, <<"e">>}, AD_PORT : {<<>>, <<"6", "3", "6">>}, AD_BASE_DN : {<<>>, BaseDN},
     AD_USERNAME : {<<>>, <<"b">>}, AD_PASSWORD : {<<>>, <<"q">>}, AD_USE_TLS : {<<>>, TrueStr},
     AD_INSECURE : {<<>>, TrueStr}]

-----------------------------------------------------------------------------
(* Handlers that the framework runs at the same time on the one client *)

\* the goroutines of one apply: one works on the group resource, one on the
\* membership resource; both hold the *Client that Configure handed out
Procs == {"group", "member"}

\* a handler that is not running
Idle == [at |-> "idle", op |-> "none", plan |-> NullMemberModel, reqs |-> <<>>]

\* a handler blocked in c.conn.Search, Modify or Del: op is the handler and
\* the accessor call it waits in, reqs the requests it has made before
Waiting(op, plan, reqs) == [at |-> "wait", op |-> op, plan |-> plan, reqs |-> reqs]

\* Client.Search, Modify and Delete pass the request straight to c.conn: the
\* Client holds no lock, the request of p goes out next to whatever is in flight
Sent(fl, p, kind) == fl \cup {[owner |-> p, kind |-> kind]}

\* a reply that leaves the request pending
AnsweredNone(fl, p) == fl

\* the reply to p's request arrives and the blocked call returns
Answered(fl, p) == {m \in fl : m.owner # p}

-----------------------------------------------------------------------------
(* The state machine *)

-----------------------------------------------------------------------------
(* internal/provider: the user data source (data_source_group.go) *)

\* a Read that looks the user up by its dn
UserReadLookup(config, c, d, srv) ==
    [diags |-> IF Search(c, d, srv, config.dn.v, "user").err # <<>> THEN ClientError ELSE <<>>,
     reqs |-> Search(c, d, srv, config.dn.v, "user").reqs,
     set |-> Search(c, d, srv, config.dn.v, "user").err = <<>>]

\* UserDataSource.Read: the placeholder adds one error and returns
UserRead(config, c, d, srv) ==
    [diags |-> <<"Not Implemented">>, reqs |-> <<>>, set |-> FALSE]

-----------------------------------------------------------------------------
(* internal/provider: the groups data source (data_source_groups.go) *)

\* the number of leading decimal digits of s from position i
RECURSIVE DigitRun(_, _)
DigitRun(s, i) ==
    IF i > Len(s) \/ DigitVal(s[i]) < 0 THEN 0 ELSE 1 + DigitRun(s, i + 1)

\* fmt.Sscanf(s, "%d", new(int64)): the count of items scanned and whether
\* an error is returned; the verb takes an optional sign and a run of digits
Sscanf(s) ==
    IF Len(s) > 0 /\ s[1] \in {"-", "+"}
    THEN [n |-> IF DigitRun(s, 2) > 0 THEN 1 ELSE 0, err |-> DigitRun(s, 2) = 0]
    ELSE [n |-> IF DigitRun(s, 1) > 0 THEN 1 ELSE 0, err |-> DigitRun(s, 1) = 0]

\* the group_type of a summary: set only when the attribute is not empty
\* and the scan succeeded, and then to the value of groupTypeInt
SummaryGroupType(groupType) ==
    IF groupType # <<>> /\ ~Sscanf(groupType).err /\ Sscanf(groupType).n = 1
    THEN TfInt(Sscanf(groupType).n)
    ELSE TfIntNull

\* the GroupsDataSourceGroupModel built from a listed group
GroupSummary(g) ==
    [dn |-> TfStr(g.DN), cn |-> TfStr(g.CN), name |-> TfStr(g.Name),
     sam_account_name |-> TfStr(g.SamAccountName), description |-> TfStr(g.Description),
     group_type |-> SummaryGroupType(g.GroupType), managed_by |-> TfStr(g.ManagedBy),
     object_guid |-> TfStr(g.ObjectGUID), object_sid |-> TfStr(g.ObjectSid)]

\* the filter the data source passes on
GroupsFilter(config) == IF IsSet(config) THEN config.v ELSE AllGroupsFilter

\* GroupsDataSource.Read after ListGroups returned l
GroupsReadReturn(config, l) ==
    IF l.err # <<>>
    THEN [diags |-> ClientError, reqs |-> l.reqs, set |-> FALSE,
          id |-> TfNull, filter |-> config, groups |-> <<>>]
    ELSE [diags |-> <<>>, reqs |-> l.reqs, set |-> TRUE,
          id |-> TfStr(<<"groups">>), filter |-> TfStr(GroupsFilter(config)),
          groups |-> [i \in 1..Len(l.groups) |-> GroupSummary(l.groups[i])]]

\* GroupsDataSource.Read
GroupsRead(config, c, d, srv, entries) ==
    GroupsReadReturn(config, ListGroups(c, d, srv, BaseDN, GroupsFilter(config), entries))

\* what the directory holds at dn: "none", "group" or "other"
Found(d, dn) ==
    IF Lookup(d, dn) = {} THEN "none"
    ELSE IF (CHOOSE x \in Lookup(d, dn) : TRUE).class = "group" THEN "group" ELSE "other"

\* the member values of the group at dn, <<>> when there is no such group
MembersAt(d, dn) ==
    IF Found(d, dn) = "group" THEN (CHOOSE x \in Lookup(d, dn) : TRUE).member ELSE <<>>

\* the directory before this provider touches it: one user
Init ==
    /\ flavour \in {"ad", "openldap"}
    /\ conn = "nil"
    /\ provider = "unconfigured"
    /\ dir = {Entry(UserDN, "user", <<"u">>, <<"u">>, <<>>, <<>>, <<>>, <<>>)}
    /\ tfGroup = Absent(NullGroupModel)
    /\ tfMember = Absent(NullMemberModel)
    /\ inflight = {}
    /\ pc = [p \in Procs |-> Idle]
    /\ resp = [op |-> "none"]

\* the framework configures the provider once
ProviderConfigure ==
    /\ provider = "unconfigured"
    /\ \E cfg \in ProviderConfigs, env \in Environments, dialOK \in BOOLEAN, bindOK \in BOOLEAN :
        LET r == Configure(cfg, env, dialOK, bindOK)
        IN  /\ conn' = r.conn
            /\ provider' = IF r.client THEN "configured" ELSE "failed"
            /\ resp' = [op |-> "Configure",
                        empty |-> {n \in {"server", "base_dn", "username", "password"} :
                                      \/ n = "server" /\ cfg.server = <<>> /\ env.AD_SERVER = <<>>
                                      \/ n = "base_dn" /\ cfg.base_dn = <<>> /\ env.AD_BASE_DN = <<>>
                                      \/ n = "username" /\ cfg.username = <<>> /\ env.AD_USERNAME = <<>>
                                      \/ n = "password" /\ cfg.password = <<>> /\ env.AD_PASSWORD = <<>>},
                        cfgPort |-> cfg.port, envPort |-> env.AD_PORT,
                        tls |-> cfg.use_tls \/ env.AD_USE_TLS = TrueStr,
                        port |-> r.config.Port, diags |-> r.diags, client |-> r.client,
                        calls |-> r.calls, dialOK |-> dialOK, bindOK |-> bindOK]
    /\ UNCHANGED <<inflight, pc, flavour, dir, tfGroup, tfMember>>

GroupCreateOp ==
    /\ provider = "configured"
    /\ ~tfGroup.present
    /\ \E plan \in GroupPlans :
        LET r == GroupCreate(plan, conn, dir, flavour)
        IN  /\ dir' = r.dir
            /\ tfGroup' = r.state
            /\ resp' = [op |-> "GroupCreate", groupType |-> plan.group_type, diags |-> r.diags,
                        reqs |-> r.reqs, plan |-> plan]
    /\ UNCHANGED <<inflight, pc, flavour, conn, provider, tfMember>>

GroupReadOp ==
    /\ provider = "configured"
    /\ tfGroup.present
    /\ LET r == GroupRead(tfGroup, conn, dir, flavour)
       IN  /\ tfGroup' = r.state
           /\ resp' = [op |-> "GroupRead", answered |-> conn = "open", tracked |-> tfGroup.data.dn.v,
                       found |-> Found(dir, tfGroup.data.dn.v), diags |-> r.diags, reqs |-> r.reqs]
    /\ UNCHANGED <<inflight, pc, flavour, conn, provider, dir, tfMember>>

GroupDeleteOp ==
    /\ provider = "configured"
    /\ tfGroup.present
    /\ LET r == GroupDelete(tfGroup, conn, dir, flavour)
       IN  /\ dir' = r.dir
           /\ tfGroup' = r.state
           /\ resp' = [op |-> "GroupDelete", answered |-> conn = "open", tracked |-> tfGroup.data.dn.v,
                       found |-> Found(dir, tfGroup.data.dn.v), diags |-> r.diags, reqs |-> r.reqs]
    /\ UNCHANGED <<inflight, pc, flavour, conn, provider, tfMember>>

GroupUpdateOp ==
    /\ provider = "configured"
    /\ tfGroup.present
    /\ \E plan \in GroupUpdatePlans(tfGroup.data) :
        \E updates \in Orders(GroupUpdates(plan, tfGroup.data)) :
          LET r == GroupUpdate(plan, tfGroup, conn, dir, flavour, updates)
          IN  /\ dir' = r.dir
              /\ tfGroup' = r.state
              /\ resp' = [op |-> "GroupUpdate", answered |-> conn = "open", tracked |-> tfGroup.data.dn.v,
                          found |-> Found(dir, tfGroup.data.dn.v), diags |-> r.diags,
                          reqs |-> r.reqs, plan |-> plan, prior |-> tfGroup.data,
                          changes |-> UpdateChanges(updates)]
    /\ UNCHANGED <<inflight, pc, flavour, conn, provider, tfMember>>

GroupImportOp ==
    /\ provider = "configured"
    /\ ~tfGroup.present
    /\ \E id \in GroupImportIds :
          /\ tfGroup' = GroupImportState(id).state
          /\ resp' = [op |-> "GroupImport", id |-> id, diags |-> <<>>, reqs |-> <<>>]
    /\ UNCHANGED <<inflight, pc, flavour, conn, provider, dir, tfMember>>

MemberCreateOp ==
    /\ provider = "configured"
    /\ ~tfMember.present
    /\ \E plan \in MemberPlans :
        LET r == MemberCreate(plan, conn, dir, flavour)
        IN  /\ dir' = r.dir
            /\ tfMember' = r.state
            /\ resp' = [op |-> "MemberCreate", group_dn |-> plan.group_dn.v,
                        member_dn |-> plan.member_dn.v, diags |-> r.diags, reqs |-> r.reqs]
    /\ UNCHANGED <<inflight, pc, flavour, conn, provider, tfGroup>>

MemberReadOp ==
    /\ provider = "configured"
    /\ tfMember.present
    /\ LET r == MemberRead(tfMember, conn, dir, flavour)
       IN  /\ tfMember' = r.state
           /\ resp' = [op |-> "MemberRead", answered |-> conn = "open",
                       found |-> Found(dir, tfMember.data.group_dn.v),
                       listed |-> HasFold(MembersAt(dir, tfMember.data.group_dn.v),
                                          tfMember.data.member_dn.v),
                       diags |-> r.diags, reqs |-> r.reqs]
    /\ UNCHANGED <<inflight, pc, flavour, conn, provider, dir, tfGroup>>

MemberDeleteOp ==
    /\ provider = "configured"
    /\ tfMember.present
    /\ LET r == MemberDelete(tfMember, conn, dir, flavour)
       IN  /\ dir' = r.dir
           /\ tfMember' = r.state
           /\ resp' = [op |-> "MemberDelete", answered |-> conn = "open",
                       found |-> Found(dir, tfMember.data.group_dn.v),
                       listed |-> HasFold(MembersAt(dir, tfMember.data.group_dn.v),
                                          tfMember.data.member_dn.v),
                       diags |-> r.diags, reqs |-> r.reqs]
    /\ UNCHANGED <<inflight, pc, flavour, conn, provider, tfGroup>>

\* terraform import of a membership
MemberImportOp ==
    /\ provider = "configured"
    /\ ~tfMember.present
    /\ \E id \in ImportIds :
        LET r == MemberImportState(id)
        IN  /\ tfMember' = r.state
            /\ resp' = [op |-> "MemberImport", id |-> id, diags |-> r.diags, set |-> r.set]
    /\ UNCHANGED <<inflight, pc, flavour, conn, provider, dir, tfGroup>>

\* a call of one Client method, on whatever client there is
ClientCall ==
    /\ \E call \in {"Search", "Add", "Modify", "Delete", "MoveGroup"} :
        LET r == CASE call = "Search" ->
                        [panic |-> FALSE, dir |-> dir] @@ Search(conn, dir, flavour, GroupDN, "group")
                   [] call = "Add" ->
                        [panic |-> FALSE] @@ Add(conn, dir, flavour,
                            Entry(GroupDN, "group", <<"g">>, <<"g">>, <<>>, FormatInt(8), <<>>, <<>>))
                   [] call = "Modify" ->
                        [panic |-> FALSE] @@ Modify(conn, dir, flavour, GroupDN,
                            <<[op |-> "replace", attr |-> "description", vals |-> <<<<"changed">>>>]>>)
                   [] call = "Delete" ->
                        [panic |-> FALSE] @@ Delete(conn, dir, flavour, GroupDN)
                   [] call = "MoveGroup" ->
                        MoveGroup(conn, dir, flavour, GroupDN, OtherOU)
        IN  /\ dir' = r.dir
            /\ resp' = [op |-> "Client", call |-> call, connWas |-> conn, panic |-> r.panic,
                        err |-> r.err, reqs |-> r.reqs]
    /\ UNCHANGED <<inflight, pc, flavour, conn, provider, tfGroup, tfMember>>

\* the configurations of the user data source
UserConfigs ==
    {[dn |-> dn, sam_account_name |-> sam] :
        dn \in {TfNull, TfStr(UserDN), TfStr(GhostDN)}, sam \in {TfNull, TfStr(<<"u">>)}}

UserReadOp ==
    /\ provider = "configured"
    /\ \E config \in UserConfigs :
          LET r == UserRead(config, conn, dir, flavour)
          IN  resp' = [op |-> "UserRead", config |-> config, connWas |-> conn,
                       diags |-> r.diags, reqs |-> r.reqs, set |-> r.set]
    /\ UNCHANGED <<inflight, pc, flavour, conn, provider, dir, tfGroup, tfMember>>

ClientClose ==
    /\ conn' = Close(conn).conn
    /\ resp' = [op |-> "Close", connWas |-> conn, err |-> Close(conn).err,
                nth |-> IF resp.op = "Close" THEN 2 ELSE 1]
    /\ UNCHANGED <<inflight, pc, flavour, provider, dir, tfGroup, tfMember>>

\* the session is lost (server restart, network)
SessionDrop ==
    /\ conn = "open"
    /\ conn' = "dropped"
    /\ resp' = [op |-> "SessionDrop"]
    /\ UNCHANGED <<inflight, pc, flavour, provider, dir, tfGroup, tfMember>>

\* another administrator deletes a group
ExtDeleteGroup ==
    /\ \E e \in dir :
        /\ e.class = "group"
        /\ dir' = dir \ {e}
    /\ resp' = [op |-> "ExtDeleteGroup"]
    /\ UNCHANGED <<inflight, pc, flavour, conn, provider, tfGroup, tfMember>>

\* another administrator replaces a group by an object that is not a group
ExtReplaceGroup ==
    /\ \E e \in dir :
        /\ e.class = "group"
        /\ dir' = (dir \ {e}) \cup {Entry(e.dn, "user", e.cn, e.sam, <<>>, <<>>, <<>>, <<>>)}
    /\ resp' = [op |-> "ExtReplaceGroup"]
    /\ UNCHANGED <<inflight, pc, flavour, conn, provider, tfGroup, tfMember>>

\* another administrator removes a member from a group
ExtRemoveMember ==
    /\ \E e \in dir :
        /\ e.class = "group"
        /\ Len(e.member) > 0
        /\ dir' = (dir \ {e}) \cup {[e EXCEPT !.member = Tail(@)]}
    /\ resp' = [op |-> "ExtRemoveMember"]
    /\ UNCHANGED <<inflight, pc, flavour, conn, provider, tfGroup, tfMember>>

\* The provider and its client: Configure, then calls of the Client methods.
Next ==
    \/ ProviderConfigure
    \/ UserReadOp
    \/ ClientClose
    \/ ClientCall
    \/ SessionDrop

Spec == Init /\ [][Next]_vars

\* The group resource, from the state a successful Configure leaves.
InitGroup ==
    /\ flavour \in {"ad", "openldap"}
    /\ conn = "open"
    /\ provider = "configured"
    /\ dir = {Entry(UserDN, "user", <<"u">>, <<"u">>, <<>>, <<>>, <<>>, <<>>)}
    /\ tfGroup = Absent(NullGroupModel)
    /\ tfMember = Absent(NullMemberModel)
    /\ inflight = {}
    /\ pc = [p \in Procs |-> Idle]
    /\ resp = [op |-> "none"]

NextGroup ==
    \/ GroupCreateOp
    \/ GroupUpdateOp
    \/ GroupImportOp
    \/ GroupReadOp
    \/ GroupDeleteOp
    \/ SessionDrop
    \/ ExtDeleteGroup
    \/ ExtReplaceGroup

SpecGroup == InitGroup /\ [][NextGroup]_vars

\* The group-membership resource, from the state a successful Configure
\* leaves, with the group "CN=g,DC=x" in the directory.
InitMember ==
    /\ flavour \in {"ad", "openldap"}
    /\ conn = "open"
    /\ provider = "configured"
    /\ dir = {Entry(UserDN, "user", <<"u">>, <<"u">>, <<>>, <<>>, <<>>, <<>>),
              Entry(GroupDN, "group", <<"g">>, <<"g">>, <<>>, FormatInt(DefaultGroupType), <<>>, <<>>)}
    /\ tfGroup = Absent(NullGroupModel)
    /\ tfMember = Absent(NullMemberModel)
    /\ inflight = {}
    /\ pc = [p \in Procs |-> Idle]
    /\ resp = [op |-> "none"]

NextMember ==
    \/ MemberCreateOp
    \/ MemberReadOp
    \/ MemberDeleteOp
    \/ MemberImportOp
    \/ SessionDrop
    \/ ExtDeleteGroup
    \/ ExtReplaceGroup
    \/ ExtRemoveMember

SpecMember == InitMember /\ [][NextMember]_vars

\* The tracked state of the group "CN=g,DC=x" as a Create left it.
TrackedGroup ==
    Present(SetFromGroup([NullGroupModel EXCEPT !.ou = TfStr(BaseDN)],
                         GroupOf(Entry(GroupDN, "group", <<"g">>, <<"g">>, <<>>,
                                       FormatInt(DefaultGroupType), <<>>, <<>>))))

\* Two handlers at a time: the framework has configured the provider, the
\* group exists and is tracked, the membership is not yet tracked.
InitConc ==
    /\ flavour \in {"ad", "openldap"}
    /\ conn = "open"
    /\ provider = "configured"
    /\ dir = {Entry(UserDN, "user", <<"u">>, <<"u">>, <<>>, <<>>, <<>>, <<>>),
              Entry(GroupDN, "group", <<"g">>, <<"g">>, <<>>, FormatInt(DefaultGroupType), <<>>, <<>>)}
    /\ tfGroup = TrackedGroup
    /\ tfMember = Absent(NullMemberModel)
    /\ inflight = {}
    /\ pc = [p \in Procs |-> Idle]
    /\ resp = [op |-> "none"]

\* a handler p of the running apply enters its first accessor call
ConcStart(p, op, plan, kind) ==
    /\ provider = "configured"
    /\ conn = "open"
    /\ pc[p].at = "idle"
    /\ inflight' = Sent(inflight, p, kind)
    /\ pc' = [pc EXCEPT ![p] = Waiting(op, plan, <<>>)]
    /\ resp' = [op |-> "Call", proc |-> p, handler |-> op]
    /\ UNCHANGED <<flavour, conn, provider, dir, tfGroup, tfMember>>

\* handler p returns res = [diags, state, dir, reqs]
ConcReturn(p, res) ==
    /\ inflight' = Answered(inflight, p)
    /\ pc' = [pc EXCEPT ![p] = Idle]
    /\ dir' = res.dir
    /\ resp' = [op |-> "Return", proc |-> p, handler |-> pc[p].op, diags |-> res.diags,
                reqs |-> res.reqs]
    /\ UNCHANGED <<flavour, conn, provider>>

\* GroupResource.Read calls GetGroup
ConcGroupRead == tfGroup.present /\ ConcStart("group", "GroupRead", NullMemberModel, "search")

\* the search is answered and Read returns
ConcGroupReadDone ==
    /\ pc["group"] = Waiting("GroupRead", NullMemberModel, <<>>)
    /\ ConcReturn("group", GroupRead(tfGroup, conn, dir, flavour))
    /\ tfGroup' = GroupRead(tfGroup, conn, dir, flavour).state
    /\ UNCHANGED tfMember

\* GroupResource.Delete calls DeleteGroup
ConcGroupDelete == tfGroup.present /\ ConcStart("group", "GroupDelete", NullMemberModel, "delete")

\* the delete is answered and Delete returns
ConcGroupDeleteDone ==
    /\ pc["group"] = Waiting("GroupDelete", NullMemberModel, <<>>)
    /\ ConcReturn("group", GroupDelete(tfGroup, conn, dir, flavour))
    /\ tfGroup' = GroupDelete(tfGroup, conn, dir, flavour).state
    /\ UNCHANGED tfMember

\* GroupMembershipResource.Create calls GetGroup for its existence check
ConcMemberCreate ==
    /\ ~tfMember.present
    /\ \E plan \in MemberPlans : ConcStart("member", "MemberCreate", plan, "search")

\* the search is answered: Create returns with an error, or goes on to call
\* AddMemberToGroup
ConcMemberCreateChecked ==
    /\ pc["member"].at = "wait"
    /\ pc["member"].op = "MemberCreate"
    /\ LET plan == pc["member"].plan
           g    == GetGroup(conn, dir, flavour, plan.group_dn.v)
       IN  IF g.err # <<>>
           THEN /\ ConcReturn("member", MemberCreateChecked(plan, conn, dir, flavour, g))
                /\ UNCHANGED <<tfGroup, tfMember>>
           ELSE /\ inflight' = Sent(Answered(inflight, "member"), "member", "modify")
                /\ pc' = [pc EXCEPT !["member"] = Waiting("MemberCreateAdd", plan, g.reqs)]
                /\ resp' = [op |-> "Call", proc |-> "member", handler |-> "MemberCreateAdd"]
                /\ UNCHANGED <<flavour, conn, provider, dir, tfGroup, tfMember>>

\* the modify is answered and Create returns
ConcMemberCreateDone ==
    /\ pc["member"].at = "wait"
    /\ pc["member"].op = "MemberCreateAdd"
    /\ LET plan == pc["member"].plan
           res  == MemberCreateAdded(plan, pc["member"].reqs,
                       AddMemberToGroup(conn, dir, flavour, plan.group_dn.v, plan.member_dn.v))
       IN  /\ ConcReturn("member", res)
           /\ tfMember' = res.state
    /\ UNCHANGED tfGroup

\* GroupMembershipResource.Read calls GetGroup
ConcMemberRead == tfMember.present /\ ConcStart("member", "MemberRead", NullMemberModel, "search")

\* the search is answered and Read returns
ConcMemberReadDone ==
    /\ pc["member"] = Waiting("MemberRead", NullMemberModel, <<>>)
    /\ ConcReturn("member", MemberRead(tfMember, conn, dir, flavour))
    /\ tfMember' = MemberRead(tfMember, conn, dir, flavour).state
    /\ UNCHANGED tfGroup

\* GroupMembershipResource.Delete calls RemoveMemberFromGroup
ConcMemberDelete == tfMember.present /\ ConcStart("member", "MemberDelete", NullMemberModel, "modify")

\* the modify is answered and Delete returns
ConcMemberDeleteDone ==
    /\ pc["member"] = Waiting("MemberDelete", NullMemberModel, <<>>)
    /\ ConcReturn("member", MemberDelete(tfMember, conn, dir, flavour))
    /\ tfMember' = MemberDelete(tfMember, conn, dir, flavour).state
    /\ UNCHANGED tfGroup

NextConc ==
    \/ ConcGroupRead
    \/ ConcGroupReadDone
    \/ ConcGroupDelete
    \/ ConcGroupDeleteDone
    \/ ConcMemberCreate
    \/ ConcMemberCreateChecked
    \/ ConcMemberCreateDone
    \/ ConcMemberRead
    \/ ConcMemberReadDone
    \/ ConcMemberDelete
    \/ ConcMemberDeleteDone

SpecConc == InitConc /\ [][NextConc]_vars

\* The escape functions and the accessors that build DNs, filters and
\* modify requests, as functions of their arguments: resp holds the
\* arguments, the actions make the calls on an open session.
CnAlphabet == {"a", "2", " ", "#", ",", "\\", "*", "(", ")", "NUL"}

CnStrs(n) == UNION {[1..k -> CnAlphabet] : k \in 0..n}

\* "CN=a,DC=x", a group with a description and a manager
TeamDN == <<"C", "N", "=", "a", ",", "D", "C", "=", "x">>

\* the updates maps given to UpdateGroup, each in every order a range over
\* the map can take: up to two attributes, each with no value or one value
UpdateArgs ==
    {u \in UNION {[1..k -> [attr : {"description", "managedBy"},
                            vals : {<<>>, <<Fold(UserDN)>>, <<GhostDN>>}]] : k \in 0..2} :
        \A i, j \in 1..Len(u) : u[i].attr = u[j].attr => i = j}

\* the filter attribute of the groups data source: not set, the default
\* text, a conjunction, a substring test, and a text that is no filter
GroupsFilters ==
    {TfNull, TfStr(AllGroupsFilter), TfStr(CnFilter(<<"a">>)),
     TfStr(<<"(", "cn", "=", "a", "*", ")">>), TfStr(<<"(", "cn">>)}

InitAccessor ==
    /\ flavour \in {"ad", "openldap"}
    /\ conn = "open"
    /\ provider = "configured"
    /\ dir = {Entry(UserDN, "user", <<"u">>, <<"u">>, <<>>, <<>>, <<>>, <<>>),
              Entry(TeamDN, "group", <<"a">>, <<"a">>, <<"team">>, FormatInt(8), UserDN, <<>>),
              Entry(NewGroupDN(OtherOU, <<"a">>), "group", <<"a">>, <<"a">>, <<>>, FormatInt(2), <<>>, <<>>),
              NewGroupEntry(BaseDN, <<"*">>, <<>>, 8),
              NewGroupEntry(BaseDN, <<"a", "2">>, <<>>, DefaultGroupType)}
    /\ tfGroup = Absent(NullGroupModel)
    /\ tfMember = Absent(NullMemberModel)
    /\ inflight = {}
    /\ pc = [p \in Procs |-> Idle]
    /\ resp \in {[op |-> "CnArg", v |-> v] : v \in CnStrs(MaxCnLen)}
                 \cup {[op |-> "UpdateArg", updates |-> u] : u \in UpdateArgs}
                 \cup {[op |-> "FilterArg", filter |-> f] : f \in GroupsFilters}

EscapeFilterCall ==
    /\ resp.op = "CnArg"
    /\ resp' = [op |-> "EscapeFilter", v |-> resp.v, out |-> EscapeFilter(resp.v)]
    /\ UNCHANGED <<flavour, conn, provider, dir, tfGroup, tfMember, inflight, pc>>

EscapeDNCall ==
    /\ resp.op = "CnArg"
    /\ resp' = [op |-> "EscapeDN", v |-> resp.v, out |-> EscapeDN(resp.v)]
    /\ UNCHANGED <<flavour, conn, provider, dir, tfGroup, tfMember, inflight, pc>>

GetGroupByCNCall ==
    /\ resp.op = "CnArg"
    /\ LET r == GetGroupByCN(conn, dir, flavour, BaseDN, resp.v)
       IN  \E entries \in Orders(ConnSearchSubtree(conn, dir, flavour, BaseDN, CnFilter(resp.v)).entries) :
             resp' = [op |-> "GetGroupByCN", v |-> resp.v, filter |-> CnFilter(resp.v),
                      err |-> r.err, reqs |-> r.reqs, found |-> {g.DN : g \in r.found},
                      entries |-> entries, group |-> GetGroupByCNGroup(entries)]
    /\ UNCHANGED <<flavour, conn, provider, dir, tfGroup, tfMember, inflight, pc>>

CreateGroupCall ==
    /\ resp.op = "CnArg"
    /\ LET r == CreateGroup(conn, dir, flavour, BaseDN, resp.v, <<>>, 8)
       IN  /\ dir' = r.dir
           /\ resp' = [op |-> "CreateGroup", v |-> resp.v, ou |-> BaseDN,
                       dn |-> NewGroupDN(BaseDN, resp.v), err |-> r.err, reqs |-> r.reqs]
    /\ UNCHANGED <<flavour, conn, provider, tfGroup, tfMember, inflight, pc>>

\* the group that CreateGroup made is moved to another OU
MoveGroupCall ==
    /\ resp.op = "CreateGroup"
    /\ resp.err = <<>>
    /\ LET r == MoveGroup(conn, dir, flavour, resp.dn, OtherOU)
       IN  /\ dir' = r.dir
           /\ resp' = [op |-> "MoveGroup", v |-> resp.v, dn |-> resp.dn,
                       request |-> MoveGroupRequest(resp.dn, OtherOU),
                       err |-> r.err, reqs |-> r.reqs]
    /\ UNCHANGED <<flavour, conn, provider, tfGroup, tfMember, inflight, pc>>

UpdateGroupCall ==
    /\ resp.op = "UpdateArg"
    /\ LET r == UpdateGroup(conn, dir, flavour, TeamDN, resp.updates)
       IN  /\ dir' = r.dir
           /\ resp' = [op |-> "UpdateGroup", dn |-> TeamDN, updates |-> resp.updates,
                       changes |-> UpdateChanges(resp.updates),
                       before |-> CHOOSE e \in Lookup(dir, TeamDN) : TRUE,
                       others |-> dir \ Lookup(dir, TeamDN),
                       err |-> r.err, reqs |-> r.reqs]
    /\ UNCHANGED <<flavour, conn, provider, tfGroup, tfMember, inflight, pc>>

GroupsReadCall ==
    /\ resp.op = "FilterArg"
    /\ \E entries \in Orders(ConnSearchSubtree(conn, dir, flavour, BaseDN, GroupsFilter(resp.filter)).entries) :
          LET r == GroupsRead(resp.filter, conn, dir, flavour, entries)
          IN  resp' = [op |-> "GroupsRead", config |-> resp.filter, entries |-> entries,
                       diags |-> r.diags, reqs |-> r.reqs, set |-> r.set,
                       id |-> r.id, filter |-> r.filter, groups |-> r.groups]
    /\ UNCHANGED <<flavour, conn, provider, dir, tfGroup, tfMember, inflight, pc>>

NextAccessor ==
    \/ GroupsReadCall
    \/ EscapeFilterCall
    \/ EscapeDNCall
    \/ GetGroupByCNCall
    \/ CreateGroupCall
    \/ MoveGroupCall
    \/ UpdateGroupCall

SpecAccessor == InitAccessor /\ [][NextAccessor]_vars

\* ImportState and the identifier Create stores, as functions of their
\* arguments: resp holds the arguments, the actions apply the handlers.
ImportAlphabet == {"g", "=", "|"}

Strs(n) == UNION {[1..k -> ImportAlphabet] : k \in 0..n}

InitImport ==
    /\ flavour = "ad"
    /\ conn = "open"
    /\ provider = "configured"
    /\ dir = {}
    /\ tfGroup = Absent(NullGroupModel)
    /\ tfMember = Absent(NullMemberModel)
    /\ inflight = {}
    /\ pc = [p \in Procs |-> Idle]
    /\ resp \in {[op |-> "ImportArg", id |-> id] : id \in Strs(MaxIdLen)}
             \cup {[op |-> "CreateArg", group_dn |-> g, member_dn |-> m] :
                      g \in Strs(MaxDnLen), m \in Strs(MaxDnLen)}

\* terraform import with the identifier id
ImportGivenId ==
    /\ resp.op = "ImportArg"
    /\ LET r == MemberImportState(resp.id)
       IN  /\ tfMember' = r.state
           /\ resp' = [op |-> "MemberImport", id |-> resp.id, diags |-> r.diags, set |-> r.set]
    /\ UNCHANGED <<inflight, pc, flavour, conn, provider, dir, tfGroup>>

\* the state Create writes once its add succeeded, then terraform import
\* with the id of that state
ImportCreatedId ==
    /\ resp.op = "CreateArg"
    /\ LET plan == [id |-> [k |-> "unknown", v |-> <<>>], group_dn |-> TfStr(resp.group_dn),
                    member_dn |-> TfStr(resp.member_dn)]
           made == MemberCreateAdded(plan, <<>>, [err |-> <<>>, dir |-> dir, reqs |-> <<>>])
           r    == MemberImportState(made.state.data.id.v)
       IN  /\ tfMember' = r.state
           /\ resp' = [op |-> "MemberImportCreated", group_dn |-> resp.group_dn,
                       member_dn |-> resp.member_dn, id |-> made.state.data.id.v,
                       diags |-> r.diags, set |-> r.set]
    /\ UNCHANGED <<inflight, pc, flavour, conn, provider, dir, tfGroup>>

NextImport ==
    \/ ImportGivenId
    \/ ImportCreatedId

SpecImport == InitImport /\ [][NextImport]_vars

-----------------------------------------------------------------------------
(* Properties *)

\* C1: a group Read whose tracked DN no longer resolves to a group (the
\* server answers the base search with no entry or with no-such-object)
\* removes the resource from tracked state and adds no error diagnostic.
C1_ReadOfVanishedGroupRemoves ==
    (resp.op = "GroupRead" /\ resp.answered /\ resp.found # "group")
        => (~tfGroup.present /\ resp.diags = <<>>)

\* C2: a group Delete of a DN that does not exist on the server adds no
\* error diagnostic and the resource leaves tracked state.
C2_DeleteOfMissingGroupSucceeds ==
    (resp.op = "GroupDelete" /\ resp.answered /\ resp.found = "none")
        => (resp.diags = <<>> /\ ~tfGroup.present)

\* C3: a membership Delete of an edge that does not exist (the group is
\* absent, or the member is not in its member attribute) adds no error
\* diagnostic.
C3_DeleteOfMissingEdgeSucceeds ==
    (/\ resp.op = "MemberDelete"
     /\ resp.answered
     /\ (resp.found = "none" \/ (resp.found = "group" /\ ~resp.listed)))
        => resp.diags = <<>>

\* C4: on a client whose conn is nil every operation (Search, Add, Modify,
\* Delete, MoveGroup) returns the not-connected error, makes no call on the
\* session and does not panic.
C4_NilConnFailsFast ==
    (resp.op = "Client" /\ resp.connWas = "nil")
        => (~resp.panic /\ resp.err = NotConnected /\ resp.reqs = <<>>)

\* the group type a Create plan asks for
PlannedGroupType(gt) == IF IsSet(gt) THEN gt.v ELSE DefaultGroupType

\* C5: after a successful group Create with group type g, a read of the
\* created DN yields g and tracked state holds g as group_type.
C5_GroupTypeRoundTrip ==
    (resp.op = "GroupCreate" /\ resp.diags = <<>>)
        => (/\ tfGroup.present
            /\ tfGroup.data.group_type = TfInt(PlannedGroupType(resp.groupType))
            /\ GetGroup(conn, dir, flavour, tfGroup.data.dn.v).err = <<>>
            /\ ParseInt(GetGroup(conn, dir, flavour, tfGroup.data.dn.v).group.GroupType)
                 = [ok |-> TRUE, v |-> PlannedGroupType(resp.groupType)])

C5_Witness ==
    /\ resp.op = "GroupCreate"
    /\ resp.diags = <<>>
    /\ resp.groupType = TfInt(DefaultGroupType)
    /\ tfGroup.present

\* C6: right after a successful membership Create the group's member
\* values contain the member DN up to letter case, and a Read keeps the
\* resource in tracked state.
C6_AddedMemberIsRead ==
    (resp.op = "MemberCreate" /\ resp.diags = <<>>)
        => (/\ HasFold(GetGroup(conn, dir, flavour, resp.group_dn).group.Members, resp.member_dn)
            /\ MemberRead(tfMember, conn, dir, flavour).state.present
            /\ MemberRead(tfMember, conn, dir, flavour).diags = <<>>)

\* the member DN is stored in another letter case than the tracked one
C6_Witness ==
    /\ resp.op = "MemberCreate"
    /\ resp.diags = <<>>
    /\ tfMember.present
    /\ HasFold(MembersAt(dir, resp.group_dn), resp.member_dn)
    /\ \A i \in 1..Len(MembersAt(dir, resp.group_dn)) : MembersAt(dir, resp.group_dn)[i] # resp.member_dn

\* C7: a membership Read keeps the resource exactly when the group exists
\* and lists the member DN (up to letter case); otherwise (group gone,
\* member no longer listed) it removes the resource, without an error.
C7_ReadKeepsIffListed ==
    (resp.op = "MemberRead" /\ resp.answered)
        => (/\ tfMember.present <=> (resp.found = "group" /\ resp.listed)
            /\ resp.diags = <<>>)

HasPipe(s) == \E i \in 1..Len(s) : s[i] = "|"

\* C8 as stated: for every group DN and member DN the id Create stores is
\* accepted by ImportState and parses back into the same two DNs.
C8_IdRoundTripAnyDN ==
    resp.op = "MemberImportCreated"
        => (/\ resp.diags = <<>>
            /\ tfMember.present
            /\ tfMember.data.group_dn = TfStr(resp.group_dn)
            /\ tfMember.data.member_dn = TfStr(resp.member_dn))

\* C8 amended: for every group DN and member DN that contain no '|' the id
\* Create stores is accepted by ImportState and parses back into the same
\* two DNs (and is kept as id).
C8_IdRoundTrip ==
    (resp.op = "MemberImportCreated" /\ ~HasPipe(resp.group_dn) /\ ~HasPipe(resp.member_dn))
        => (/\ resp.diags = <<>>
            /\ tfMember.present
            /\ tfMember.data.id = TfStr(resp.id)
            /\ tfMember.data.group_dn = TfStr(resp.group_dn)
            /\ tfMember.data.member_dn = TfStr(resp.member_dn))

C8_Witness ==
    /\ resp.op = "MemberImportCreated"
    /\ Len(resp.group_dn) = MaxDnLen
    /\ Len(resp.member_dn) = MaxDnLen
    /\ ~HasPipe(resp.group_dn)
    /\ ~HasPipe(resp.member_dn)
    /\ tfMember.present

Pipes(s) == {i \in 1..Len(s) : s[i] = "|"}

\* C9: ImportState of an identifier with exactly one '|' sets group_dn to
\* the text before it, member_dn to the text after it and id to the whole
\* identifier; with no '|' or with two or more it reports an error and
\* sets no attribute.
C9_ImportParsesOnePipe ==
    resp.op = "MemberImport"
        => IF Cardinality(Pipes(resp.id)) = 1
           THEN /\ resp.diags = <<>>
                /\ resp.set = {"id", "group_dn", "member_dn"}
                /\ tfMember.present
                /\ tfMember.data.id = TfStr(resp.id)
                /\ \A i \in Pipes(resp.id) :
                      /\ tfMember.data.group_dn = TfStr(SubSeq(resp.id, 1, i - 1))
                      /\ tfMember.data.member_dn = TfStr(SubSeq(resp.id, i + 1, Len(resp.id)))
           ELSE /\ resp.diags = <<"Unexpected Import Identifier">>
                /\ resp.set = {}
                /\ ~tfMember.present

C9_Witness ==
    /\ resp.op = "MemberImport"
    /\ Cardinality(Pipes(resp.id)) = 1
    /\ tfMember.present
    /\ tfMember.data.group_dn.v # <<>>
    /\ tfMember.data.member_dn.v # <<>>

\* C10: when server, base DN, username or password is empty after the
\* environment fallback, Configure reports an error, makes no dial and no
\* bind and hands out no client; a client is handed out only when all four
\* are set.
C10_MissingSettingStopsConfigure ==
    resp.op = "Configure"
        => (/\ resp.empty # {} =>
                  (/\ resp.diags # <<>>
                   /\ resp.calls = <<>>
                   /\ ~resp.client
                   /\ conn = "nil"
                   /\ provider = "failed")
            /\ resp.client => resp.empty = {}
            /\ provider = "configured" <=> resp.client)

\* only the password is missing
C10_Witness ==
    /\ resp.op = "Configure"
    /\ resp.empty = {"password"}
    /\ resp.diags = <<"Missing AD Password Configuration">>
    /\ resp.calls = <<>>

\* how many of the calls made on the network are among names
CountOf(calls, names) == Cardinality({i \in 1..Len(calls) : calls[i] \in names})

\* C11: NewClient (reached when no setting is missing) returns a client only
\* when the dial and then the bind succeeded; a dial failure returns an
\* error with no bind attempted; a bind failure closes the dialed connection
\* and returns an error with no client; there is exactly one dial attempt
\* and at most one bind attempt.
C11_ConnectOnce ==
    (resp.op = "Configure" /\ resp.empty = {})
        => (/\ CountOf(resp.calls, {"dial", "dialtls"}) = 1
            /\ resp.calls[1] \in {"dial", "dialtls"}
            /\ CountOf(resp.calls, {"bind"}) <= 1
            /\ resp.client <=> (resp.dialOK /\ resp.bindOK)
            /\ resp.client <=> resp.diags = <<>>
            /\ resp.client => conn = "open"
            /\ ~resp.dialOK => (resp.calls = <<resp.calls[1]>> /\ conn = "nil")
            /\ (resp.dialOK /\ ~resp.bindOK)
                  => (resp.calls = <<resp.calls[1], "bind", "close">> /\ conn = "closed"))

\* the dial succeeded and the bind was rejected
C11_Witness ==
    /\ resp.op = "Configure"
    /\ resp.empty = {}
    /\ resp.dialOK
    /\ ~resp.bindOK
    /\ resp.diags = <<"Unable to Create AD Client">>
    /\ resp.calls = <<"dialtls", "bind", "close">>

\* C12: when no port is configured the connection uses port 636 if TLS is
\* requested (use_tls or AD_USE_TLS=true) and 389 otherwise; a configured
\* non-zero port is used as given.
C12_DefaultPortFollowsTLS ==
    (resp.op = "Configure" /\ resp.calls # <<>>)
        => resp.port = (IF resp.cfgPort # 0 THEN resp.cfgPort
                        ELSE IF resp.tls THEN 636 ELSE 389)

\* C13: when no port is given in the configuration and AD_PORT holds a port
\* number, the connection is made to that port number.
C13_EnvPortIsUsed ==
    (resp.op = "Configure" /\ resp.calls # <<>> /\ resp.cfgPort = 0 /\ ParseInt(resp.envPort).ok)
        => resp.port = ParseInt(resp.envPort).v

SessionCalls == {"dial", "dialtls", "bind"}

\* C15: the session is created once, by Configure; no Client operation and
\* no resource handler dials, binds or reconnects; once the session is
\* dropped it stays dropped, and every later Client operation and every
\* resource handler that uses the session returns an error to its caller.
C15_NoReconnect ==
    [][/\ conn' = "open" /\ conn # "open" => (resp'.op = "Configure" /\ provider = "unconfigured")
       /\ provider # "unconfigured" => provider' = provider
       /\ conn = "dropped" => conn' = "dropped"
       /\ resp'.op = "Client" =>
             (/\ CountOf(resp'.reqs, SessionCalls) = 0
              /\ conn = "dropped" => (resp'.err # <<>> /\ ~resp'.panic /\ dir' = dir))
       /\ conn = "dropped" =>
             (/\ GroupRead(TrackedGroup, conn, dir, flavour).diags # <<>>
              /\ GroupDelete(TrackedGroup, conn, dir, flavour).diags # <<>>
              /\ \A plan \in GroupPlans :
                    /\ GroupCreate(plan, conn, dir, flavour).diags # <<>>
                    /\ CountOf(GroupCreate(plan, conn, dir, flavour).reqs, SessionCalls) = 0
              /\ \A plan \in MemberPlans :
                    /\ MemberCreate(plan, conn, dir, flavour).diags # <<>>
                    /\ MemberRead(Present(plan), conn, dir, flavour).diags # <<>>
                    /\ MemberDelete(Present(plan), conn, dir, flavour).diags # <<>>)
      ]_vars

\* a search on the dropped session, with the group in the directory
C15_Witness ==
    /\ resp.op = "Client"
    /\ resp.call = "Search"
    /\ resp.connWas = "dropped"
    /\ conn = "dropped"
    /\ Found(dir, GroupDN) = "group"
    /\ Contains(resp.err, <<"Network", "Error">>)

FilterSpecial == {"\\", "*", "(", ")", "NUL"}

\* C16: for every v, EscapeFilter(v) holds no raw '*', '(', ')' or NUL,
\* every backslash in it starts a two-hex-digit escape, and decoding the
\* escapes gives back v; the filter GetGroupByCN builds for v is the
\* conjunction of objectClass=group and the equality cn=v, and it matches
\* exactly the groups whose cn equals v.
C16_NoFilterInjection ==
    /\ resp.op = "EscapeFilter" =>
          (/\ \A i \in 1..Len(resp.out) : resp.out[i] \notin {"*", "(", ")", "NUL"}
           /\ \A i \in 1..Len(resp.out) :
                 resp.out[i] = "\\" => (/\ i + 2 <= Len(resp.out)
                                         /\ HexVal(resp.out[i + 1]) >= 0
                                         /\ HexVal(resp.out[i + 2]) >= 0)
           /\ DecodeFilterValue(resp.out) = [ok |-> TRUE, v |-> resp.v])
    /\ resp.op = "GetGroupByCN" =>
          (/\ CompileFilter(resp.filter)
                 = [ok |-> TRUE,
                    items |-> <<[kind |-> "equality", attr |-> <<"objectClass">>, ok |-> TRUE,
                                 v |-> <<"group">>],
                                [kind |-> "equality", attr |-> <<"cn">>, ok |-> TRUE, v |-> resp.v]>>]
           /\ resp.reqs = <<"search">>
           /\ resp.found = {e.dn : e \in {x \in dir : x.class = "group" /\ x.cn = resp.v}}
           /\ resp.err = <<>> <=> resp.found # {})

\* the name "*" finds the group named "*" and no other
C16_Witness ==
    /\ resp.op = "GetGroupByCN"
    /\ resp.v = <<"*">>
    /\ resp.found = {NewGroupDN(BaseDN, <<"*">>)}
    /\ Cardinality({x \in dir : x.class = "group"}) > 1

\* the characters EscapeDN replaces
EscapeDNSpecial == {"\\", ",", "+", "\"", "<", ">", ";", "=", "\n", "\r", "NUL"}

\* C17: EscapeFilter and EscapeDN return a value for every string, and
\* return the string unchanged when it holds none of their special
\* characters.
C17_EscapeIsIdentityOnPlain ==
    /\ resp.op = "EscapeFilter" =>
          (/\ resp.out \in Seq(STRING)
           /\ (\A i \in 1..Len(resp.v) : resp.v[i] \notin FilterSpecial) => resp.out = resp.v)
    /\ resp.op = "EscapeDN" =>
          (/\ resp.out \in Seq(STRING)
           /\ (\A i \in 1..Len(resp.v) : resp.v[i] \notin EscapeDNSpecial) => resp.out = resp.v)

\* a name of full length with no special character of EscapeDN in it
C17_Witness ==
    /\ resp.op = "EscapeDN"
    /\ Len(resp.v) = MaxCnLen
    /\ \A i \in 1..Len(resp.v) : resp.v[i] \notin EscapeDNSpecial
    /\ resp.out = resp.v

\* C18: for every common name cn and OU path ou the DN CreateGroup builds
\* reads, under the DN quoting rules, as a first RDN with attribute CN and
\* value exactly cn, followed by ou.
C18_CreatedDNHoldsCN ==
    resp.op = "CreateGroup" =>
        (/\ ParseDN(resp.dn).ok
         /\ ParseDN(resp.dn).type = <<"C", "N">>
         /\ ~ParseDN(resp.dn).multi
         /\ ParseDN(resp.dn).value = resp.v
         /\ ParseDN(resp.dn).parent = resp.ou)

\* C19: MoveGroup issues one rename of currentDN whose new RDN is the first
\* RDN of currentDN, with delete-old-RDN set and newParentDN as the new
\* superior, for every DN CreateGroup can produce.
C19_MoveKeepsRDN ==
    resp.op = "MoveGroup" =>
        (/\ resp.reqs = <<"modifydn">>
         /\ resp.request = [dn |-> resp.dn, newRDN |-> FirstRDN(resp.dn), deleteOldRDN |-> TRUE,
                            newSuperior |-> OtherOU])

\* the attributes of a directory entry
EntryAttrs == {"dn", "class", "cn", "name", "sam", "description", "groupType", "managedBy",
               "member", "guid", "sid"}

\* C20: UpdateGroup sends one modify request on dn with exactly one change
\* for each named attribute, a delete when its value list is empty and a
\* replace with the given values otherwise; the attributes not named, and
\* the other entries, are not touched.
C20_UpdateOneChangePerAttribute ==
    resp.op = "UpdateGroup" =>
        (/\ resp.reqs = <<"modify">>
         /\ Len(resp.changes) = Len(resp.updates)
         /\ \A i \in 1..Len(resp.updates) :
               resp.changes[i] = [op |-> IF resp.updates[i].vals = <<>> THEN "delete" ELSE "replace",
                                  attr |-> resp.updates[i].attr, vals |-> resp.updates[i].vals]
         /\ dir \ Lookup(dir, resp.dn) = resp.others
         /\ \A e \in Lookup(dir, resp.dn) :
               /\ \A a \in EntryAttrs :
                     (\A i \in 1..Len(resp.updates) : resp.updates[i].attr # a)
                         => e[a] = resp.before[a]
               /\ resp.err # <<>> => e = resp.before
               /\ resp.err = <<>> =>
                     \A i \in 1..Len(resp.updates) :
                        IF resp.updates[i].vals = <<>> THEN e[resp.updates[i].attr] = <<>>
                        ELSE Fold(e[resp.updates[i].attr]) = Fold(resp.updates[i].vals[1]))

\* one attribute is deleted and the other replaced in one request
C20_Witness ==
    /\ resp.op = "UpdateGroup"
    /\ resp.err = <<>>
    /\ Len(resp.changes) = 2
    /\ resp.changes[1].op = "delete"
    /\ resp.changes[2].op = "replace"
    /\ \E e \in Lookup(dir, resp.dn) : e.description = <<>> /\ e.managedBy # resp.before.managedBy

\* C21: GetGroupByCN returns a not-found error when the subtree search
\* returns no entry, and otherwise the group built from the first returned
\* entry, without an error, also when more than one entry matches.
C21_FirstMatchWins ==
    resp.op = "GetGroupByCN" =>
        IF Len(resp.entries) = 0
        THEN /\ resp.err = <<"group", "not", "found", "with", "CN", ":">> \o resp.v
             /\ resp.group = NoGroup
        ELSE /\ resp.err = <<>>
             /\ resp.group = GroupOf(resp.entries[1])
             /\ resp.group.DN \in resp.found

\* two groups are named "a"; the one the server returns first is taken
C21_Witness ==
    /\ resp.op = "GetGroupByCN"
    /\ Len(resp.entries) = 2
    /\ resp.err = <<>>
    /\ resp.group.DN = NewGroupDN(OtherOU, <<"a">>)
    /\ resp.entries[2].dn = TeamDN

\* C22: every group summary the groups data source returns reports as
\* group_type the signed integer the directory holds in the groupType
\* attribute of that group, whenever that attribute is a valid integer.
C22_SummaryGroupType ==
    (resp.op = "GroupsRead" /\ resp.set) =>
        \A i \in 1..Len(resp.groups) :
            ParseInt(resp.entries[i].groupType).ok =>
                resp.groups[i].group_type = TfInt(ParseInt(resp.entries[i].groupType).v)

\* C23: the SAM account name of a group that Create made is the configured
\* sam_account_name when one is given, and the common name when none is.
C23_SamAccountNameHonoured ==
    (resp.op = "GroupCreate" /\ resp.diags = <<>>) =>
        \A e \in Lookup(dir, tfGroup.data.dn.v) :
            /\ e.sam = (IF IsSet(resp.plan.sam_account_name)
                        THEN resp.plan.sam_account_name.v ELSE resp.plan.cn.v)
            /\ tfGroup.data.sam_account_name = TfStr(e.sam)

\* C24: every Read of the user data source, whatever dn or sam_account_name
\* is given, ends with the "Not Implemented" error, sends no request to the
\* directory and sets no state.
C24_UserReadNotImplemented ==
    resp.op = "UserRead" =>
        /\ resp.diags = <<"Not Implemented">>
        /\ resp.reqs = <<>>
        /\ ~resp.set

\* a Read for a user that the directory holds, on an open session
C24_Witness ==
    /\ resp.op = "UserRead"
    /\ resp.connWas = "open"
    /\ resp.config.dn = TfStr(UserDN)
    /\ Found(dir, UserDN) # "none"

\* C25: Close returns no error on a client that is connected, that was
\* never connected, or that is closed already; a Close that follows a Close
\* leaves the client as the first one left it.
C25_CloseIdempotent ==
    [][resp'.op = "Close" =>
          /\ resp'.err = <<>>
          /\ Close(conn').err = <<>>
          /\ Close(conn').conn = conn'
          /\ (resp.op = "Close" => conn' = conn)
          /\ (conn = "nil" => conn' = "nil")
          /\ dir' = dir
      ]_vars

\* a second Close of a client that was connected
C25_Witness ==
    /\ resp.op = "Close"
    /\ resp.nth = 2
    /\ resp.connWas = "closed"
    /\ conn = "closed"
    /\ provider = "configured"

\* the entries of d other than the one a DN names
OtherEntries(d, dn) == {e \in d : Fold(e.dn) # Fold(dn)}

\* C26: Read, Update and Delete of the group resource act on the entry
\* that the DN held in tracked state names, also when that DN is not the one
\* cn and ou would give, and on no other entry; after every successful
\* Create, Read or Update the id and the dn in state are both the DN of the
\* entry the directory returned.
C26_DNIsTheIdentity ==
    [][/\ resp'.op \in {"GroupRead", "GroupUpdate", "GroupDelete"} =>
             /\ resp'.tracked = tfGroup.data.dn.v
             /\ OtherEntries(dir', tfGroup.data.dn.v) = OtherEntries(dir, tfGroup.data.dn.v)
             /\ (conn = "open" /\ Found(dir, tfGroup.data.dn.v) = "group") =>
                    /\ resp'.op = "GroupRead" => (resp'.diags = <<>> /\ tfGroup'.present)
                    /\ resp'.op = "GroupDelete" =>
                           (resp'.diags = <<>> /\ Lookup(dir', tfGroup.data.dn.v) = {})
                    /\ resp'.op = "GroupUpdate" =>
                           (resp'.diags = <<>> \/ dir' = dir)
             /\ (resp'.diags = <<>> /\ tfGroup'.present) =>
                    \E e \in Lookup(dir', tfGroup.data.dn.v) :
                        /\ e.class = "group"
                        /\ tfGroup'.data.dn = TfStr(e.dn)
                        /\ tfGroup'.data.id = TfStr(e.dn)
       /\ (resp'.op = "GroupCreate" /\ resp'.diags = <<>>) =>
             /\ tfGroup'.present
             /\ \E e \in dir' :
                    /\ e.class = "group"
                    /\ tfGroup'.data.dn = TfStr(e.dn)
                    /\ tfGroup'.data.id = TfStr(e.dn)
      ]_vars

\* a group imported by its DN in lower case was read: the request found
\* the entry, state holds the DN as the directory returned it, and cn and
\* ou in state do not give that DN
C26_Witness ==
    /\ resp.op = "GroupRead"
    /\ resp.diags = <<>>
    /\ resp.tracked = Fold(GroupDN)
    /\ tfGroup.present
    /\ tfGroup.data.dn = TfStr(GroupDN)
    /\ tfGroup.data.id = TfStr(GroupDN)
    /\ NewGroupDN(tfGroup.data.ou.v, tfGroup.data.cn.v) # GroupDN

\* C27: when Create of the group resource ends with an error diagnostic,
\* the directory holds no group that this Create added.
C27_NoOrphanOnFailedCreate ==
    [][(resp'.op = "GroupCreate" /\ resp'.diags # <<>>) =>
          /\ ~tfGroup'.present
          /\ dir' = dir
      ]_vars

\* C28: the modify request of Update names exactly those of description,
\* managedBy and groupType whose planned value is not the one of the prior
\* state, as a delete when the planned value is null and as a replace by
\* the planned value otherwise; no modify is sent when none differs; after
\* every successful Update the group was read again and state holds the
\* directory's values.
C28_UpdateOnlyWhatChanged ==
    resp.op = "GroupUpdate" =>
        /\ \A i, j \in 1..Len(resp.changes) : resp.changes[i].attr = resp.changes[j].attr => i = j
        /\ (\E i \in 1..Len(resp.changes) : resp.changes[i].attr = "description")
              <=> resp.plan.description # resp.prior.description
        /\ (\E i \in 1..Len(resp.changes) : resp.changes[i].attr = "managedBy")
              <=> resp.plan.managed_by # resp.prior.managed_by
        /\ (\E i \in 1..Len(resp.changes) : resp.changes[i].attr = "groupType")
              <=> resp.plan.group_type # resp.prior.group_type
        /\ \A i \in 1..Len(resp.changes) :
              /\ resp.changes[i].attr \in {"description", "managedBy", "groupType"}
              /\ resp.changes[i].attr = "description" =>
                    IF resp.plan.description.k = "null"
                    THEN resp.changes[i].op = "delete" /\ resp.changes[i].vals = <<>>
                    ELSE resp.changes[i].op = "replace"
                         /\ resp.changes[i].vals = <<resp.plan.description.v>>
              /\ resp.changes[i].attr = "managedBy" =>
                    IF resp.plan.managed_by.k = "null"
                    THEN resp.changes[i].op = "delete" /\ resp.changes[i].vals = <<>>
                    ELSE resp.changes[i].op = "replace"
                         /\ resp.changes[i].vals = <<resp.plan.managed_by.v>>
              /\ resp.changes[i].attr = "groupType" =>
                    /\ resp.changes[i].op = "replace"
                    /\ resp.changes[i].vals = <<FormatInt(resp.plan.group_type.v)>>
        /\ CountOf(resp.reqs, {"modify"}) = (IF Len(resp.changes) = 0 THEN 0 ELSE 1)
        /\ CountOf(resp.reqs, {"add", "delete", "modifydn"}) = 0
        /\ resp.diags = <<>> =>
              /\ resp.reqs = (IF Len(resp.changes) = 0 THEN <<>> ELSE <<"modify">>) \o <<"search">>
              /\ tfGroup.present
              /\ \E e \in Lookup(dir, resp.tracked) :
                    /\ tfGroup.data.dn = TfStr(e.dn)
                    /\ tfGroup.data.description = TfStr(e.description)
                    /\ tfGroup.data.managed_by = TfStr(e.managedBy)
                    /\ tfGroup.data.group_type = TfInt(ParseInt(e.groupType).v)
                    /\ tfGroup.data.sam_account_name = TfStr(e.sam)
        /\ resp.diags # <<>> => tfGroup = Present(resp.prior)

\* an Update that deletes the description and replaces managedBy and
\* groupType, and succeeds
C28_Witness ==
    /\ resp.op = "GroupUpdate"
    /\ resp.diags = <<>>
    /\ Len(resp.changes) = 3
    /\ \E i \in 1..3 : resp.changes[i].op = "delete" /\ resp.changes[i].attr = "description"
    /\ tfGroup.data.managed_by = TfStr(UserDN)
    /\ tfGroup.data.group_type = TfInt(8)

\* C29: after a successful Create the description and managed_by in state
\* are the planned values, a null one saved as null, so that an Update
\* planned with the same values names neither attribute.
C29_NullStaysNull ==
    (resp.op = "GroupCreate" /\ resp.diags = <<>>) =>
        /\ tfGroup.data.description = resp.plan.description
        /\ tfGroup.data.managed_by = resp.plan.managed_by
        /\ GroupUpdates([tfGroup.data EXCEPT !.description = resp.plan.description,
                                             !.managed_by = resp.plan.managed_by,
                                             !.group_type = tfGroup.data.group_type],
                        tfGroup.data) = {}

\* C30: membership Create sends the add-member modify only after its
\* GetGroup succeeded, and writes state, with the id made of the two DNs,
\* only after the add succeeded; when the check fails no modify is sent,
\* and when either step fails no state is written.  The two requests are
\* separate: when the group is deleted between them, Create ends with the
\* error of the add.
C30_MemberCreateOrder ==
    [][/\ (pc'["member"].op = "MemberCreateAdd" /\ pc["member"].op # "MemberCreateAdd") =>
             /\ pc["member"].op = "MemberCreate"
             /\ pc'["member"].reqs = <<"search">>
             /\ GetGroup(conn, dir, flavour, pc["member"].plan.group_dn.v).err = <<>>
             /\ [owner |-> "member", kind |-> "modify"] \in inflight'
       /\ (tfMember'.present /\ ~tfMember.present) =>
             /\ pc["member"].op = "MemberCreateAdd"
             /\ resp'.diags = <<>>
             /\ resp'.reqs = <<"search", "modify">>
             /\ AddMemberToGroup(conn, dir, flavour, pc["member"].plan.group_dn.v,
                                 pc["member"].plan.member_dn.v).err = <<>>
             /\ tfMember'.data.id = TfStr(pc["member"].plan.group_dn.v \o <<"|">>
                                              \o pc["member"].plan.member_dn.v)
             /\ HasFold(MembersAt(dir', pc["member"].plan.group_dn.v), pc["member"].plan.member_dn.v)
       /\ (resp'.op = "Return" /\ resp'.handler = "MemberCreate") =>
             /\ resp'.diags # <<>>
             /\ resp'.reqs = <<"search">>
             /\ ~tfMember'.present
             /\ dir' = dir
       /\ (resp'.op = "Return" /\ resp'.handler = "MemberCreateAdd" /\ resp'.diags # <<>>) =>
             /\ ~tfMember'.present
             /\ dir' = dir
       /\ (resp'.op = "Return" /\ resp'.handler = "MemberCreateAdd"
              /\ Found(dir, pc["member"].plan.group_dn.v) = "none") =>
             /\ resp'.diags # <<>>
             /\ resp'.reqs = <<"search", "modify">>
             /\ ~tfMember'.present
             /\ Contains(AddMemberToGroup(conn, dir, flavour, pc["member"].plan.group_dn.v,
                                          pc["member"].plan.member_dn.v).err,
                         <<"failed", "to", "add", "member">>)
      ]_vars

\* the group was deleted after the check found it: the add was sent and
\* refused, and nothing is tracked
C30_Witness ==
    /\ resp.op = "Return"
    /\ resp.handler = "MemberCreateAdd"
    /\ resp.reqs = <<"search", "modify">>
    /\ resp.diags # <<>>
    /\ Found(dir, GroupDN) = "none"
    /\ ~tfGroup.present
    /\ ~tfMember.present

====
